---- MODULE Spec2Model ----
(***************************************************************************)
(* Model of the lobby API server: the table registry (lobby.rs), the       *)
(* session directory (session.rs) and the identifiers of protocol.rs.      *)
(*                                                                         *)
(* SpecLobby    : concurrent callers of SharedLobby (tokio RwLock<Lobby>). *)
(* SpecSessions : callers of SharedSessions (RwLock<HashMap<..>>) and the  *)
(*                receiving ends of the sessions' unbounded channels.      *)
(***************************************************************************)
EXTENDS Integers, Sequences, FiniteSets, TLC

VARIABLES
    tables,        \* Lobby.tables : Vec<Table>
    nextTableId,   \* NEXT_TABLE_ID : AtomicIsize
    lobbyWriters,  \* the tasks that hold the write guard of the lobby lock
    lobbyReaders,  \* the tasks that hold a read guard of the lobby lock
    pc,            \* per task: "idle", "write" (holds write guard), "read"
    call,          \* per task: the SharedLobby call in progress
    ret,           \* the last SharedLobby call that returned: its result and
                   \* the list it found
    refTables,     \* sequential reference list, advanced in lock order
    refExpect,     \* per task: the result the reference gives its call
    refRet,        \* the reference's result for the call recorded in ret
    issued,        \* number of SharedLobby calls issued so far
    sessions,      \* SharedSessions.sessions : HashMap<ClientId, Session>
    channels,      \* the unbounded channels behind the ClientSenders
    sret,          \* the last SharedSessions call that returned: its result and
                   \* the directory and channels before and after it
    sissued,       \* number of SharedSessions calls issued so far
    conns,         \* per connection: the state of its handle_connect task
    nextClientId,  \* NEXT_CLIENT_ID : AtomicUsize
    last,          \* the last inbound message that was processed to the end,
                   \* with what its processing did
    received       \* number of inbound messages received so far

lobbyVars == <<tables, nextTableId, lobbyWriters, lobbyReaders, pc, call, ret,
               refTables, refExpect, refRet, issued>>
sessVars == <<sessions, channels, sret, sissued>>
connVars == <<conns, nextClientId, last, received>>
vars == <<lobbyVars, sessVars, connVars>>

----------------------------------------------------------------------------
(* Bounds of the model *)

NumTasks == 2
MaxCalls == 3
NumClientIds == 2
MaxSessionCalls == 4
MaxBroadcastCalls == 5
NumConnections == 2
MaxInputs == 2
MaxEventInputs == 4
MaxSubscriptionInputs == 4
MaxLockInputs == 3
MaxFairInputs == 3
MaxLegacyInputs == 3
MaxOrderingInputs == 6
MaxReloginInputs == 5

(* Program constants *)

ABSENT == -1
TABLE_ID_INVALID == 99999
FirstTableId == 1

Tasks == 1..NumTasks

Some(x) == [some |-> TRUE, value |-> x]
None == [some |-> FALSE]

Ok(x) == [ok |-> TRUE, value |-> x]
Err(x) == [ok |-> FALSE, err |-> x]

----------------------------------------------------------------------------
(* protocol.rs *)

FetchAddSame(counter) == counter

\* TableId::new(): NEXT_TABLE_ID.fetch_add(1, Relaxed), the value stored next
FetchAdd(counter) == counter + 1

Table(id, name, participants) ==
    [id |-> id, name |-> name, participants |-> participants]

TableToAdd(name, participants) == [name |-> name, participants |-> participants]

\* a table made without the id it was given
IntoTableAbsent(table_to_add, id) ==
    [id |-> ABSENT, name |-> table_to_add.name,
     participants |-> table_to_add.participants]

IntoTable(table_to_add, id) ==
    [id |-> id, name |-> table_to_add.name,
     participants |-> table_to_add.participants]

UpdateWithNameOnly(self, other) == [self EXCEPT !.name = other.name]

UpdateWith(self, other) ==
    [self EXCEPT !.name = other.name, !.participants = other.participants]

(* Vec helpers, with the 0-based indices of the source *)

VecInsert(v, index, element) ==
    SubSeq(v, 1, index) \o <<element>> \o SubSeq(v, index + 1, Len(v))

VecRemove(v, index) ==
    SubSeq(v, 1, index) \o SubSeq(v, index + 2, Len(v))

Position(v, id) ==
    IF \E i \in 1..Len(v) : v[i].id = id
    THEN Some((CHOOSE i \in 1..Len(v) :
                  /\ v[i].id = id
                  /\ \A j \in 1..(i - 1) : v[j].id /= id) - 1)
    ELSE None

----------------------------------------------------------------------------
(* lobby.rs : Lobby *)

\* Lobby::prepopulated, given the value of NEXT_TABLE_ID before it
Prepopulated(counter) ==
    << Table(counter, "James Bond", 7),
       Table(FetchAdd(counter), "Mission Impossible", 9) >>

LobbyAddTableAtEnd(ts, new_id, after_id, table_to_add) ==
    LET table == IntoTable(table_to_add, new_id)
        pos == Position(ts, after_id)
    IN  IF after_id = ABSENT
        THEN [tables |-> VecInsert(ts, Len(ts), table), result |-> Ok(table)]
        ELSE IF pos.some
             THEN [tables |-> VecInsert(ts, pos.value + 1, table),
                   result |-> Ok(table)]
             ELSE [tables |-> ts, result |-> Err(after_id)]

LobbyAddTableAtIndex(ts, new_id, after_id, table_to_add) ==
    LET table == IntoTable(table_to_add, new_id)
        pos == Position(ts, after_id)
    IN  IF after_id = ABSENT
        THEN [tables |-> VecInsert(ts, 0, table), result |-> Ok(table)]
        ELSE IF pos.some
             THEN [tables |-> VecInsert(ts, pos.value, table),
                   result |-> Ok(table)]
             ELSE [tables |-> ts, result |-> Err(after_id)]

LobbyAddTableLenient(ts, new_id, after_id, table_to_add) ==
    LET table == IntoTable(table_to_add, new_id)
        pos == Position(ts, after_id)
    IN  IF after_id = ABSENT
        THEN [tables |-> VecInsert(ts, 0, table), result |-> Ok(table)]
        ELSE IF pos.some
             THEN [tables |-> VecInsert(ts, pos.value + 1, table),
                   result |-> Ok(table)]
             ELSE [tables |-> VecInsert(ts, Len(ts), table),
                   result |-> Err(after_id)]

\* Lobby::add_table, given the id that TableId::new() returned:
\* the new list and the Result<Table, String>
LobbyAddTable(ts, new_id, after_id, table_to_add) ==
    LET table == IntoTable(table_to_add, new_id)
        pos == Position(ts, after_id)
    IN  IF after_id = ABSENT
        THEN [tables |-> VecInsert(ts, 0, table), result |-> Ok(table)]
        ELSE IF pos.some
             THEN [tables |-> VecInsert(ts, pos.value + 1, table),
                   result |-> Ok(table)]
             ELSE [tables |-> ts, result |-> Err(after_id)]

LobbyUpdateTable(ts, table_to_update) ==
    LET pos == Position(ts, table_to_update.id)
    IN  IF pos.some
        THEN LET updated == UpdateWith(ts[pos.value + 1], table_to_update)
             IN  [tables |-> [ts EXCEPT ![pos.value + 1] = updated],
                  result |-> Ok(updated)]
        ELSE [tables |-> ts, result |-> Err(table_to_update.id)]

LobbyRemoveTableFirst(ts, id) ==
    LET pos == Position(ts, id)
    IN  IF pos.some
        THEN [tables |-> VecRemove(ts, 0), result |-> Ok(id)]
        ELSE [tables |-> ts, result |-> Err(id)]

LobbyRemoveTable(ts, id) ==
    LET pos == Position(ts, id)
    IN  IF pos.some
        THEN [tables |-> VecRemove(ts, pos.value), result |-> Ok(id)]
        ELSE [tables |-> ts, result |-> Err(id)]

(* tokio RwLock<Lobby>: a write guard excludes every other guard, a read    *)
(* guard excludes write guards                                              *)

CanWriteUnguarded == TRUE

CanWrite == lobbyWriters = {} /\ lobbyReaders = {}

CanRead == lobbyWriters = {}

----------------------------------------------------------------------------
(* Inputs of the callers *)

\* every id that TableId::new() can have returned within MaxCalls calls, the
\* sentinel, and the id the tests use as unknown
InputIds ==
    {ABSENT, TABLE_ID_INVALID} \cup (FirstTableId..(FirstTableId + 1 + MaxCalls))

TablesToAdd == { TableToAdd("table - Foo Fighters", 4) }

TablesToUpdate == { Table(i, "Updated", 5) : i \in InputIds }

AddTableCalls ==
    { [op |-> "add_table", after_id |-> a, table_to_add |-> p] :
        a \in InputIds, p \in TablesToAdd }

UpdateTableCalls ==
    { [op |-> "update_table", table |-> u] : u \in TablesToUpdate }

RemoveTableCalls == { [op |-> "remove_table", id |-> i] : i \in InputIds }

WriteCalls == AddTableCalls \cup UpdateTableCalls \cup RemoveTableCalls

ReadTablesCall == [op |-> "read_tables"]

NoCall == [op |-> "none"]

----------------------------------------------------------------------------
(* The sequential reference list: what a call does to a list of tables     *)
(* with pairwise different ids, stated without positions                    *)

RefHas(list, id) == \E i \in 1..Len(list) : list[i].id = id

RefIndex(list, id) == CHOOSE i \in 1..Len(list) : list[i].id = id

RefApply(list, c, fresh_id) ==
    IF c.op = "add_table" THEN
        LET t == Table(fresh_id, c.table_to_add.name, c.table_to_add.participants)
        IN  IF c.after_id = ABSENT
            THEN [tables |-> <<t>> \o list, result |-> Ok(t)]
            ELSE IF RefHas(list, c.after_id)
                 THEN [tables |->
                          [i \in 1..(Len(list) + 1) |->
                              IF i <= RefIndex(list, c.after_id) THEN list[i]
                              ELSE IF i = RefIndex(list, c.after_id) + 1 THEN t
                              ELSE list[i - 1]],
                       result |-> Ok(t)]
                 ELSE [tables |-> list, result |-> Err(c.after_id)]
    ELSE IF c.op = "update_table" THEN
        IF RefHas(list, c.table.id)
        THEN [tables |-> [i \in 1..Len(list) |->
                             IF list[i].id = c.table.id THEN c.table ELSE list[i]],
              result |-> Ok(c.table)]
        ELSE [tables |-> list, result |-> Err(c.table.id)]
    ELSE
        IF RefHas(list, c.id)
        THEN [tables |-> SelectSeq(list, LAMBDA x : x.id /= c.id),
              result |-> Ok(c.id)]
        ELSE [tables |-> list, result |-> Err(c.id)]

----------------------------------------------------------------------------
(* lobby.rs : SharedLobby.  Each method takes the guard, runs the Lobby    *)
(* method under it and drops the guard at the end of the statement.         *)

\* self.lobby.write().await
LobbyWriteLock(t, c) ==
    /\ pc[t] = "idle"
    /\ issued < MaxCalls
    /\ CanWrite
    /\ lobbyWriters' = lobbyWriters \cup {t}
    /\ pc' = [pc EXCEPT ![t] = "write"]
    /\ call' = [call EXCEPT ![t] = c]
    /\ refTables' = RefApply(refTables, c, nextTableId).tables
    /\ refExpect' = [refExpect EXCEPT ![t] = RefApply(refTables, c, nextTableId).result]
    /\ issued' = issued + 1
    /\ UNCHANGED <<tables, nextTableId, lobbyReaders, ret, refRet, sessVars, connVars>>

\* self.lobby.read().await
LobbyReadLock(t) ==
    /\ pc[t] = "idle"
    /\ issued < MaxCalls
    /\ CanRead
    /\ lobbyReaders' = lobbyReaders \cup {t}
    /\ pc' = [pc EXCEPT ![t] = "read"]
    /\ call' = [call EXCEPT ![t] = ReadTablesCall]
    /\ refExpect' = [refExpect EXCEPT ![t] = refTables]
    /\ issued' = issued + 1
    /\ UNCHANGED <<tables, nextTableId, lobbyWriters, ret, refTables, refRet, sessVars, connVars>>

Returned(t, result) ==
    /\ ret' = [task |-> t, call |-> call[t], result |-> result, before |-> tables]
    /\ refRet' = refExpect[t]
    /\ pc' = [pc EXCEPT ![t] = "idle"]
    /\ call' = [call EXCEPT ![t] = NoCall]
    /\ UNCHANGED <<refTables, refExpect, issued, sessVars, connVars>>

SharedLobbyAddTable(t) ==
    /\ pc[t] = "write"
    /\ call[t].op = "add_table"
    /\ LET r == LobbyAddTable(tables, nextTableId, call[t].after_id,
                              call[t].table_to_add)
       IN  /\ tables' = r.tables
           /\ Returned(t, r.result)
    /\ nextTableId' = FetchAdd(nextTableId)
    /\ lobbyWriters' = lobbyWriters \ {t}
    /\ UNCHANGED lobbyReaders

SharedLobbyUpdateTable(t) ==
    /\ pc[t] = "write"
    /\ call[t].op = "update_table"
    /\ LET r == LobbyUpdateTable(tables, call[t].table)
       IN  /\ tables' = r.tables
           /\ Returned(t, r.result)
    /\ lobbyWriters' = lobbyWriters \ {t}
    /\ UNCHANGED <<nextTableId, lobbyReaders>>

SharedLobbyRemoveTable(t) ==
    /\ pc[t] = "write"
    /\ call[t].op = "remove_table"
    /\ LET r == LobbyRemoveTable(tables, call[t].id)
       IN  /\ tables' = r.tables
           /\ Returned(t, r.result)
    /\ lobbyWriters' = lobbyWriters \ {t}
    /\ UNCHANGED <<nextTableId, lobbyReaders>>

SharedLobbyReadTables(t) ==
    /\ pc[t] = "read"
    /\ Returned(t, tables)
    /\ lobbyReaders' = lobbyReaders \ {t}
    /\ UNCHANGED <<tables, nextTableId, lobbyWriters>>

----------------------------------------------------------------------------

InitLobby ==
    /\ tables = Prepopulated(FirstTableId)
    /\ nextTableId = FetchAdd(FetchAdd(FirstTableId))
    /\ lobbyWriters = {}
    /\ lobbyReaders = {}
    /\ pc = [t \in Tasks |-> "idle"]
    /\ call = [t \in Tasks |-> NoCall]
    /\ ret = [task |-> 0, call |-> NoCall, result |-> None,
              before |-> Prepopulated(FirstTableId)]
    /\ refTables = Prepopulated(FirstTableId)
    /\ refExpect = [t \in Tasks |-> None]
    /\ refRet = None
    /\ issued = 0

InitSessions ==
    /\ sessions = << >>
    /\ channels = << >>
    /\ sret = [op |-> "none", client_id |-> 0, arg |-> "none", result |-> "unit",
               before |-> [sessions |-> << >>, channels |-> << >>],
               after |-> [sessions |-> << >>, channels |-> << >>]]
    /\ sissued = 0

NoInput == [type |-> "none"]

NoResult == [output |-> None, subscription_output |-> None,
             action |-> [kind |-> "DoNothing"]]

\* the two RwLocks and the two ways of holding each
LobbyLocks == {"lobby_read", "lobby_write"}

SessionsLocks == {"sessions_read", "sessions_write"}

\* a guard that is never dropped
ReleaseNothing(holds, locks) == holds

\* the guard of a lock is a temporary of the statement that took it and is
\* dropped when the method of SharedLobby or SharedSessions returns
Release(holds, locks) == holds \ locks

\* the locals of one handle_connect task, what the processing of its
\* current inbound message has done so far, whether the message it
\* processed to the end before was an UnsubscribeTables dispatched with a
\* role, the lock guards the task holds, and the sessions its broadcast has
\* still to visit
Connection(stage, client_id) ==
    [pc |-> stage, client_id |-> client_id, input |-> NoInput,
     user_type |-> None, result |-> NoResult,
     session_before |-> None, lobby_before |-> << >>, lobby_after |-> << >>,
     replies |-> << >>, broadcasts |-> << >>,
     unsubscribed |-> FALSE, holds |-> {}, scan |-> << >>]

Connections == 1..NumConnections

InitConnections ==
    /\ conns = [c \in Connections |-> Connection("new", 0)]
    /\ nextClientId = 1
    /\ last = [Connection("none", 0) EXCEPT !.pc = "done"]
             @@ [session_after |-> None]
    /\ received = 0

Init == InitLobby /\ InitSessions /\ InitConnections

NextLobby ==
    \E t \in Tasks :
        \/ \E c \in WriteCalls : LobbyWriteLock(t, c)
        \/ LobbyReadLock(t)
        \/ SharedLobbyAddTable(t)
        \/ SharedLobbyUpdateTable(t)
        \/ SharedLobbyRemoveTable(t)
        \/ SharedLobbyReadTables(t)

SpecLobby == Init /\ [][NextLobby]_vars

----------------------------------------------------------------------------
(* session.rs : SharedSessions.  Each method takes the guard of the        *)
(* directory's lock for one statement, so a call is one step.               *)

ClientIds == 1..NumClientIds

UserTypes == { None, Some("User"), Some("Admin") }

Pong == [type |-> "pong", seq |-> 12345]
NotAuthenticated == [type |-> "not_authenticated"]

Outputs == { Pong, NotAuthenticated }

MapInsertIfVacant(m, k, v) ==
    [x \in (DOMAIN m) \cup {k} |-> IF x \in DOMAIN m THEN m[x] ELSE v]

\* HashMap::insert, HashMap::remove
MapInsert(m, k, v) == [x \in (DOMAIN m) \cup {k} |-> IF x = k THEN v ELSE m[x]]

\* remove that removes nothing
MapRemoveNothing(m, k) == m

MapRemove(m, k) == [x \in (DOMAIN m) \ {k} |-> m[x]]

\* mpsc::unbounded_channel(): the channel behind a new ClientSender
NewChannel == [queue |-> << >>, rx_open |-> TRUE, tx_open |-> TRUE]

\* UnboundedSender::send: fails when the receiving half is gone, never blocks
\* a send that puts the message in front of the waiting ones
SenderSendInFront(chs, ch, output) ==
    IF chs[ch].rx_open
    THEN [channels |-> [chs EXCEPT ![ch].queue = <<output>> \o @],
          result |-> Ok("unit")]
    ELSE [channels |-> chs, result |-> Err("channel closed")]

SenderSend(chs, ch, output) ==
    IF chs[ch].rx_open
    THEN [channels |-> [chs EXCEPT ![ch].queue = Append(@, output)],
          result |-> Ok("unit")]
    ELSE [channels |-> chs, result |-> Err("channel closed")]

\* dropping a Session drops its ClientSender
DropSender(chs, sess, client_id) ==
    IF client_id \in DOMAIN sess
    THEN [chs EXCEPT ![sess[client_id].client_sender].tx_open = FALSE]
    ELSE chs

NoSession(client_id) == Err(<<"no session", client_id>>)

\* the Session that SharedSessions::add builds
Session(client_id, client_sender) ==
    [client_id |-> client_id, client_sender |-> client_sender,
     user_type |-> None, subscribed |-> FALSE]

SessionsReturned(op, client_id, arg, result) ==
    /\ sret' = [op |-> op, client_id |-> client_id, arg |-> arg, result |-> result,
                before |-> [sessions |-> sessions, channels |-> channels],
                after |-> [sessions |-> sessions', channels |-> channels']]
    /\ sissued' = sissued + 1
    /\ UNCHANGED <<lobbyVars, connVars>>

SessionsAdd(client_id) ==
    /\ LET ch == Len(channels) + 1
       IN  /\ channels' = Append(DropSender(channels, sessions, client_id), NewChannel)
           /\ sessions' = MapInsert(sessions, client_id, Session(client_id, ch))
    /\ SessionsReturned("add", client_id, "none", "unit")

SessionsRemove(client_id) ==
    /\ channels' = DropSender(channels, sessions, client_id)
    /\ sessions' = MapRemove(sessions, client_id)
    /\ SessionsReturned("remove", client_id, "none", "unit")

SendToAll(sess, chs, client_id, output) ==
    IF client_id \in DOMAIN sess
    THEN [channels |->
             [ch \in DOMAIN chs |->
                 IF chs[ch].rx_open /\ chs[ch].tx_open
                 THEN [chs[ch] EXCEPT !.queue = Append(@, output)]
                 ELSE chs[ch]],
          result |-> Ok("unit")]
    ELSE [channels |-> chs, result |-> NoSession(client_id)]

\* SharedSessions::send: the channels afterwards and the Result<(), String>
Send(sess, chs, client_id, output) ==
    IF client_id \in DOMAIN sess
    THEN SenderSend(chs, sess[client_id].client_sender, output)
    ELSE [channels |-> chs, result |-> NoSession(client_id)]

SessionsSend(client_id, output) ==
    /\ LET r == Send(sessions, channels, client_id, output)
       IN  /\ channels' = r.channels
           /\ sessions' = sessions
           /\ SessionsReturned("send", client_id, output, r.result)

\* broadcast that does not filter on the subscribed flag
BroadcastToAll(sess, chs, output) ==
    LET success == { id \in DOMAIN sess : chs[sess[id].client_sender].rx_open }
    IN  [channels |->
            [ch \in DOMAIN chs |->
                IF \E id \in success : sess[id].client_sender = ch
                THEN [chs[ch] EXCEPT !.queue = Append(@, output)]
                ELSE chs[ch]],
         result |-> [success_client_ids |-> { sess[id].client_id : id \in success },
                     failure_client_ids |->
                         { sess[id].client_id : id \in DOMAIN sess \ success }]]

\* broadcast that gives up at the first failed delivery
BroadcastAbortOnFailure(sess, chs, output) ==
    LET subscribed == { id \in DOMAIN sess : sess[id].subscribed }
        failure == { id \in subscribed : ~chs[sess[id].client_sender].rx_open }
        success == IF failure = {} THEN subscribed ELSE {}
    IN  [channels |->
            [ch \in DOMAIN chs |->
                IF \E id \in success : sess[id].client_sender = ch
                THEN [chs[ch] EXCEPT !.queue = Append(@, output)]
                ELSE chs[ch]],
         result |-> [success_client_ids |-> { sess[id].client_id : id \in success },
                     failure_client_ids |-> { sess[id].client_id : id \in failure }]]

\* SharedSessions::broadcast: the channels afterwards and the BroadcastResult
Broadcast(sess, chs, output) ==
    LET subscribed == { id \in DOMAIN sess : sess[id].subscribed }
        success == { id \in subscribed : chs[sess[id].client_sender].rx_open }
    IN  [channels |->
            [ch \in DOMAIN chs |->
                IF \E id \in success : sess[id].client_sender = ch
                THEN [chs[ch] EXCEPT !.queue = Append(@, output)]
                ELSE chs[ch]],
         result |-> [success_client_ids |-> { sess[id].client_id : id \in success },
                     failure_client_ids |->
                         { sess[id].client_id : id \in subscribed \ success }]]

SessionsBroadcast(output) ==
    /\ LET r == Broadcast(sessions, channels, output)
       IN  /\ channels' = r.channels
           /\ sessions' = sessions
           /\ SessionsReturned("broadcast", 0, output, r.result)

ReadUserType(sess, client_id) ==
    IF client_id \in DOMAIN sess
    THEN Ok(sess[client_id].user_type)
    ELSE NoSession(client_id)

SessionsReadUserType(client_id) ==
    /\ UNCHANGED <<sessions, channels>>
    /\ SessionsReturned("read_user_type", client_id, "none",
                        ReadUserType(sessions, client_id))

\* a write that assigns the field in every session
WriteAll(sess, client_id, field, value) ==
    IF client_id \in DOMAIN sess
    THEN [sessions |-> [id \in DOMAIN sess |-> [sess[id] EXCEPT ![field] = value]],
          result |-> Ok("unit")]
    ELSE [sessions |-> sess, result |-> NoSession(client_id)]

WriteUpsert(sess, client_id, field, value) ==
    IF client_id \in DOMAIN sess
    THEN [sessions |-> [sess EXCEPT ![client_id][field] = value],
          result |-> Ok("unit")]
    ELSE [sessions |->
             MapInsert(sess, client_id,
                       [Session(client_id, 1) EXCEPT ![field] = value]),
          result |-> NoSession(client_id)]

\* SharedSessions::write with the closure that assigns one field
Write(sess, client_id, field, value) ==
    IF client_id \in DOMAIN sess
    THEN [sessions |-> [sess EXCEPT ![client_id][field] = value],
          result |-> Ok("unit")]
    ELSE [sessions |-> sess, result |-> NoSession(client_id)]

SessionsWriteUserType(client_id, user_type) ==
    /\ LET r == Write(sessions, client_id, "user_type", user_type)
       IN  /\ sessions' = r.sessions
           /\ channels' = channels
           /\ SessionsReturned("write_user_type", client_id, user_type, r.result)

SessionsWriteSubscribed(client_id, subscribed) ==
    /\ LET r == Write(sessions, client_id, "subscribed", subscribed)
       IN  /\ sessions' = r.sessions
           /\ channels' = channels
           /\ SessionsReturned("write_subscribed", client_id, subscribed, r.result)

(* The receiving half of a channel: the forwarding task of handle_connect   *)
(* takes the outputs in order; a caller may also drop the receiver, as the  *)
(* tests of session.rs do.                                                  *)

ReceiverRecv(ch) ==
    /\ ch \in DOMAIN channels
    /\ channels[ch].rx_open
    /\ channels[ch].queue /= << >>
    /\ channels' = [channels EXCEPT ![ch].queue = Tail(@)]
    /\ UNCHANGED <<sessions, sret, sissued, lobbyVars, connVars>>

ReceiverDrop(ch) ==
    /\ ch \in DOMAIN channels
    /\ channels[ch].rx_open
    /\ channels' = [channels EXCEPT ![ch].rx_open = FALSE, ![ch].queue = << >>]
    /\ UNCHANGED <<sessions, sret, sissued, lobbyVars, connVars>>

SessionCallsLeft == sissued < MaxSessionCalls

NextSessions ==
    \/ \E id \in ClientIds : SessionCallsLeft /\ SessionsAdd(id)
    \/ \E id \in ClientIds : SessionCallsLeft /\ SessionsRemove(id)
    \/ \E id \in ClientIds, o \in Outputs :
          SessionCallsLeft /\ SessionsSend(id, o)
    \/ \E o \in Outputs : SessionCallsLeft /\ SessionsBroadcast(o)
    \/ \E id \in ClientIds : SessionCallsLeft /\ SessionsReadUserType(id)
    \/ \E id \in ClientIds, u \in UserTypes :
          SessionCallsLeft /\ SessionsWriteUserType(id, u)
    \/ \E id \in ClientIds, b \in BOOLEAN :
          SessionCallsLeft /\ SessionsWriteSubscribed(id, b)
    \/ \E ch \in DOMAIN channels : ReceiverRecv(ch)
    \/ \E ch \in DOMAIN channels : ReceiverDrop(ch)

SpecSessions == Init /\ [][NextSessions]_vars

\* a caller that registers sessions, subscribes them and broadcasts, as
\* tests::broadcast_output_to_subscribed_client_ids does
BroadcastCallsLeft == sissued < MaxBroadcastCalls

NextBroadcast ==
    \/ \E id \in ClientIds : BroadcastCallsLeft /\ SessionsAdd(id)
    \/ \E id \in ClientIds : BroadcastCallsLeft /\ SessionsRemove(id)
    \/ \E id \in ClientIds, b \in BOOLEAN :
          BroadcastCallsLeft /\ SessionsWriteSubscribed(id, b)
    \/ \E o \in Outputs : BroadcastCallsLeft /\ SessionsBroadcast(o)
    \/ \E ch \in DOMAIN channels : ReceiverRecv(ch)
    \/ \E ch \in DOMAIN channels : ReceiverDrop(ch)

SpecBroadcast == Init /\ [][NextBroadcast]_vars

----------------------------------------------------------------------------
(* protocol.rs : Input and Output                                           *)

Ping(seq) == [type |-> "ping", seq |-> seq]
Login(username, password) ==
    [type |-> "login", username |-> username, password |-> password]
SubscribeTables == [type |-> "subscribe_tables"]
UnsubscribeTables == [type |-> "unsubscribe_tables"]
AddTable(after_id, table) ==
    [type |-> "add_table", after_id |-> after_id, table |-> table]
UpdateTable(table) == [type |-> "update_table", table |-> table]
RemoveTable(id) == [type |-> "remove_table", id |-> id]

LoginSuccessful(user_type) ==
    [type |-> "login_successful", user_type |-> user_type]
LoginFailed == [type |-> "login_failed"]
PongSeq(seq) == [type |-> "pong", seq |-> seq]
TableList(ts) == [type |-> "table_list", tables |-> ts]
TableAdded(after_id, table) ==
    [type |-> "table_added", after_id |-> after_id, table |-> table]
TableUpdated(table) == [type |-> "table_updated", table |-> table]
TableRemoved(id) == [type |-> "table_removed", id |-> id]
TableAddFailed == [type |-> "table_add_failed"]
TableUpdateFailed(id) == [type |-> "table_update_failed", id |-> id]
TableRemoveFailed(id) == [type |-> "table_remove_failed", id |-> id]
NotAuthorized == [type |-> "not_authorized"]
InvalidMessage == [type |-> "invalid_message"]

----------------------------------------------------------------------------
(* service.rs                                                               *)

DoNothing == [kind |-> "DoNothing"]
UpdateUserType(user_type) == [kind |-> "UpdateUserType", user_type |-> user_type]
UpdateSubscribed(subscribed) ==
    [kind |-> "UpdateSubscribed", subscribed |-> subscribed]

ProcessResult(output, subscription_output, action) ==
    [output |-> output, subscription_output |-> subscription_output,
     action |-> action]

\* what a function of service.rs leaves behind: its ProcessResult, the
\* tables of the lobby and NEXT_TABLE_ID
Processed(result, ts, counter) ==
    [result |-> result, tables |-> ts, nextTableId |-> counter]

\* ping that always answers with the same sequence number
ServicePingFixed(seq) ==
    ProcessResult(Some(Pong), None, DoNothing)

ServicePing(seq) ==
    ProcessResult(Some(PongSeq(seq)), None, DoNothing)

\* credentials checked by the username alone
CredentialsByUsername(username, password) ==
    IF username = "admin" THEN Some("Admin")
    ELSE IF username = "user" THEN Some("User")
    ELSE None

\* the match of service::login on the credentials
Credentials(username, password) ==
    IF username = "admin" /\ password = "admin" THEN Some("Admin")
    ELSE IF username = "user" /\ password = "user" THEN Some("User")
    ELSE None

\* login that leaves the session alone when the credentials are wrong
ServiceLoginKeepRole(username, password) ==
    LET user_type == Credentials(username, password)
    IN  IF user_type.some
        THEN ProcessResult(Some(LoginSuccessful(user_type.value)), None,
                           UpdateUserType(user_type))
        ELSE ProcessResult(Some(LoginFailed), None, DoNothing)

\* login that makes everybody an administrator
ServiceLoginAlwaysAdmin(username, password) ==
    LET user_type == Credentials(username, password)
        output == IF user_type.some
                  THEN LoginSuccessful(user_type.value)
                  ELSE LoginFailed
    IN  ProcessResult(Some(output), None,
                      IF user_type.some THEN UpdateUserType(Some("Admin"))
                      ELSE UpdateUserType(None))

ServiceLogin(username, password) ==
    LET user_type == Credentials(username, password)
        output == IF user_type.some
                  THEN LoginSuccessful(user_type.value)
                  ELSE LoginFailed
    IN  ProcessResult(Some(output), None, UpdateUserType(user_type))

\* subscribe that answers with an empty list
ServiceSubscribeEmpty(ts) ==
    ProcessResult(Some(TableList(<< >>)), None, UpdateSubscribed(TRUE))

ServiceSubscribe(ts) ==
    ProcessResult(Some(TableList(ts)), None, UpdateSubscribed(TRUE))

\* unsubscribe that forgets the session
ServiceUnsubscribeKeep ==
    ProcessResult(None, None, DoNothing)

ServiceUnsubscribe ==
    ProcessResult(None, None, UpdateSubscribed(FALSE))

\* add_table that also answers the administrator directly
ServiceAddTableWithReply(after_id, table_to_add, ts, counter) ==
    LET r == LobbyAddTable(ts, counter, after_id, table_to_add)
    IN  IF r.result.ok
        THEN Processed(ProcessResult(Some(TableAdded(after_id, r.result.value)),
                                     Some(TableAdded(after_id, r.result.value)),
                                     DoNothing),
                       r.tables, FetchAdd(counter))
        ELSE Processed(ProcessResult(Some(TableAddFailed), None, DoNothing),
                       r.tables, FetchAdd(counter))

ServiceAddTable(after_id, table_to_add, ts, counter) ==
    LET r == LobbyAddTable(ts, counter, after_id, table_to_add)
    IN  IF r.result.ok
        THEN Processed(ProcessResult(None,
                                     Some(TableAdded(after_id, r.result.value)),
                                     DoNothing),
                       r.tables, FetchAdd(counter))
        ELSE Processed(ProcessResult(Some(TableAddFailed), None, DoNothing),
                       r.tables, FetchAdd(counter))

\* update_table that publishes its failures
ServiceUpdateTableLoud(table_to_update, ts, counter) ==
    LET id == table_to_update.id
        r == LobbyUpdateTable(ts, table_to_update)
    IN  IF r.result.ok
        THEN Processed(ProcessResult(None, Some(TableUpdated(r.result.value)),
                                     DoNothing),
                       r.tables, counter)
        ELSE Processed(ProcessResult(Some(TableUpdateFailed(id)),
                                     Some(TableUpdateFailed(id)), DoNothing),
                       r.tables, counter)

ServiceUpdateTable(table_to_update, ts, counter) ==
    LET id == table_to_update.id
        r == LobbyUpdateTable(ts, table_to_update)
    IN  IF r.result.ok
        THEN Processed(ProcessResult(None, Some(TableUpdated(r.result.value)),
                                     DoNothing),
                       r.tables, counter)
        ELSE Processed(ProcessResult(Some(TableUpdateFailed(id)), None,
                                     DoNothing),
                       r.tables, counter)

ServiceRemoveTable(id, ts, counter) ==
    LET r == LobbyRemoveTable(ts, id)
    IN  IF r.result.ok
        THEN Processed(ProcessResult(None, Some(TableRemoved(r.result.value)),
                                     DoNothing),
                       r.tables, counter)
        ELSE Processed(ProcessResult(Some(TableRemoveFailed(id)), None,
                                     DoNothing),
                       r.tables, counter)

\* process_unathenticated that answers a ping
ProcessUnauthenticatedPing(input, ts, counter) ==
    IF input.type = "login"
    THEN Processed(ServiceLogin(input.username, input.password), ts, counter)
    ELSE IF input.type = "ping"
         THEN Processed(ServicePing(input.seq), ts, counter)
         ELSE Processed(ProcessResult(Some(NotAuthenticated), None, DoNothing),
                        ts, counter)

ProcessUnauthenticated(input, ts, counter) ==
    IF input.type = "login"
    THEN Processed(ServiceLogin(input.username, input.password), ts, counter)
    ELSE Processed(ProcessResult(Some(NotAuthenticated), None, DoNothing),
                   ts, counter)

\* process_user that lets a user remove tables
ProcessUserMayRemove(input, ts, counter) ==
    CASE input.type = "ping" ->
            Processed(ServicePing(input.seq), ts, counter)
      [] input.type = "login" ->
            Processed(ServiceLogin(input.username, input.password), ts, counter)
      [] input.type = "subscribe_tables" ->
            Processed(ServiceSubscribe(ts), ts, counter)
      [] input.type = "unsubscribe_tables" ->
            Processed(ServiceUnsubscribe, ts, counter)
      [] input.type = "remove_table" ->
            ServiceRemoveTable(input.id, ts, counter)
      [] input.type \in {"add_table", "update_table"} ->
            Processed(ProcessResult(Some(NotAuthorized), None, DoNothing),
                      ts, counter)

ProcessUser(input, ts, counter) ==
    CASE input.type = "ping" ->
            Processed(ServicePing(input.seq), ts, counter)
      [] input.type = "login" ->
            Processed(ServiceLogin(input.username, input.password), ts, counter)
      [] input.type = "subscribe_tables" ->
            Processed(ServiceSubscribe(ts), ts, counter)
      [] input.type = "unsubscribe_tables" ->
            Processed(ServiceUnsubscribe, ts, counter)
      [] input.type \in {"add_table", "update_table", "remove_table"} ->
            Processed(ProcessResult(Some(NotAuthorized), None, DoNothing),
                      ts, counter)

ProcessAdmin(input, ts, counter) ==
    CASE input.type = "ping" ->
            Processed(ServicePing(input.seq), ts, counter)
      [] input.type = "login" ->
            Processed(ServiceLogin(input.username, input.password), ts, counter)
      [] input.type = "subscribe_tables" ->
            Processed(ServiceSubscribe(ts), ts, counter)
      [] input.type = "unsubscribe_tables" ->
            Processed(ServiceUnsubscribe, ts, counter)
      [] input.type = "add_table" ->
            ServiceAddTable(input.after_id, input.table, ts, counter)
      [] input.type = "update_table" ->
            ServiceUpdateTable(input.table, ts, counter)
      [] input.type = "remove_table" ->
            ServiceRemoveTable(input.id, ts, counter)

\* process that treats everybody as an administrator
ProcessAsAdmin(input, user_type, ts, counter) ==
    ProcessAdmin(input, ts, counter)

\* service::process
Process(input, user_type, ts, counter) ==
    IF ~user_type.some THEN ProcessUnauthenticated(input, ts, counter)
    ELSE IF user_type.value = "User" THEN ProcessUser(input, ts, counter)
    ELSE ProcessAdmin(input, ts, counter)

----------------------------------------------------------------------------
(* web_socket.rs : one handle_connect task per connection                   *)
(* The forwarding task that handle_connect spawns keeps the receiver of the *)
(* channel for as long as a sender of it exists, so the receiver of a       *)
(* registered session is never dropped here.  The task only takes outputs   *)
(* from the front of the queue; the queue is kept whole, so that it is the  *)
(* sequence of the outputs that were sent to the session.                   *)

\* the inbound commands a client sends
CommandIds == {FirstTableId, TABLE_ID_INVALID}

Inputs ==
    { Ping(1), Ping(12345) }
    \cup { Login("admin", "admin"), Login("user", "user"), Login("user", "pass") }
    \cup { SubscribeTables, UnsubscribeTables }
    \cup { AddTable(a, t) : a \in {ABSENT} \cup CommandIds, t \in TablesToAdd }
    \cup { UpdateTable(Table(i, "Updated", 5)) : i \in CommandIds }
    \cup { RemoveTable(i) : i \in CommandIds }

SessionOf(sess, client_id) ==
    IF client_id \in DOMAIN sess THEN Some(sess[client_id]) ELSE None

\* process_input that writes the action before it sends anything
NextStageActionFirst(stage, result) ==
    IF stage = "process" /\ result.action.kind # "DoNothing" THEN "action"
    ELSE IF stage \in {"process", "action"} /\ result.output.some THEN "output"
    ELSE IF stage \in {"process", "action", "output"}
            /\ result.subscription_output.some
         THEN "broadcast"
    ELSE "done"

\* the stage of process_input that follows `stage`: the next effect of the
\* ProcessResult that is there to apply
NextStage(stage, result) ==
    IF stage = "process" /\ result.output.some THEN "output"
    ELSE IF stage \in {"process", "output"} /\ result.subscription_output.some
         THEN "broadcast"
    ELSE IF stage \in {"process", "output", "broadcast"}
            /\ result.action.kind # "DoNothing"
         THEN "action"
    ELSE "done"

\* connection c goes on with the locals conn; when process_input has
\* returned, the message and its effects become the last processed one and
\* the task is back in its receive loop
Continue(c, conn) ==
    IF conn.pc = "done"
    THEN /\ last' = conn @@ [session_after |-> SessionOf(sessions', conn.client_id)]
         /\ conns' = [conns EXCEPT ![c] =
                          [Connection("recv", conn.client_id) EXCEPT
                              !.unsubscribed =
                                  /\ conn.input.type = "unsubscribe_tables"
                                  /\ conn.user_type.some,
                              !.holds = conn.holds]]
    ELSE /\ last' = last
         /\ conns' = [conns EXCEPT ![c] = conn]

\* handle_connect up to the receive loop; the connections are
\* interchangeable, so they are taken in their order
Connect(c) ==
    /\ conns[c].pc = "new"
    /\ \A d \in 1..(c - 1) : conns[d].pc # "new"
    /\ LET client_id == nextClientId
           ch == Len(channels) + 1
       IN  /\ nextClientId' = FetchAdd(nextClientId)
           /\ channels' = Append(DropSender(channels, sessions, client_id),
                                 NewChannel)
           /\ sessions' = MapInsert(sessions, client_id, Session(client_id, ch))
           /\ conns' = [conns EXCEPT ![c] = Connection("recv", client_id)]
    /\ UNCHANGED <<last, received, lobbyVars, sret, sissued>>

\* a text message that deserializes to an Input, and the first step of
\* process_input on it: sessions.read_user_type(client_id)
Receive(c, input) ==
    /\ conns[c].pc = "recv"
    /\ received' = received + 1
    /\ LET r == ReadUserType(sessions, conns[c].client_id)
           conn == [conns[c] EXCEPT
                       !.input = input,
                       !.session_before = SessionOf(sessions, conns[c].client_id)]
       IN  /\ UNCHANGED <<sessions, channels>>
           /\ IF r.ok
              THEN Continue(c, [conn EXCEPT !.pc = "process",
                                            !.user_type = r.value])
              ELSE Continue(c, [conn EXCEPT !.pc = "done"])
    /\ UNCHANGED <<nextClientId, lobbyVars, sret, sissued>>

\* a text message that does not deserialize, and process_input on it:
\* process_output(client_id, &sessions, Output::InvalidMessage)
ReceiveInvalid(c) ==
    /\ conns[c].pc = "recv"
    /\ received' = received + 1
    /\ UNCHANGED lobbyVars
    /\ LET r == Send(sessions, channels, conns[c].client_id, InvalidMessage)
       IN  /\ channels' = r.channels
           /\ sessions' = sessions
           /\ Continue(c, [conns[c] EXCEPT
                  !.pc = "done",
                  !.input = [type |-> "invalid"],
                  !.session_before = SessionOf(sessions, conns[c].client_id),
                  !.lobby_before = tables,
                  !.lobby_after = tables',
                  !.replies = Append(@, [output |-> InvalidMessage,
                                         result |-> r.result])])
    /\ UNCHANGED <<nextClientId, sret, sissued>>

\* a message that is not text is ignored
ReceiveNonText(c) ==
    /\ conns[c].pc = "recv"
    /\ received' = received + 1
    /\ UNCHANGED <<conns, last, nextClientId, lobbyVars, sessVars>>

\* the stream ends or fails: the receive loop is left and handle_disconnect
\* removes the session
Disconnect(c) ==
    /\ conns[c].pc = "recv"
    /\ channels' = DropSender(channels, sessions, conns[c].client_id)
    /\ sessions' = MapRemove(sessions, conns[c].client_id)
    /\ conns' = [conns EXCEPT ![c].pc = "closed"]
    /\ UNCHANGED <<last, received, nextClientId, lobbyVars, sret, sissued>>

\* process_input: service::process(input, &user_type, lobby)
ProcessStep(c) ==
    /\ conns[c].pc = "process"
    /\ LET p == Process(conns[c].input, conns[c].user_type, tables, nextTableId)
       IN  /\ tables' = p.tables
           /\ nextTableId' = p.nextTableId
           /\ UNCHANGED <<sessions, channels>>
           /\ Continue(c, [conns[c] EXCEPT !.pc = NextStage("process", p.result),
                                           !.holds = Release(@, LobbyLocks),
                                           !.result = p.result,
                                           !.lobby_before = tables,
                                           !.lobby_after = p.tables])
    /\ UNCHANGED <<received, nextClientId, sret, sissued, lobbyWriters,
                   lobbyReaders, pc, call, ret, refTables, refExpect, refRet,
                   issued>>

\* process_input: process_output(client_id, &sessions, output)
OutputStep(c) ==
    /\ conns[c].pc = "output"
    /\ LET output == conns[c].result.output.value
           r == Send(sessions, channels, conns[c].client_id, output)
       IN  /\ channels' = r.channels
           /\ sessions' = sessions
           /\ Continue(c, [conns[c] EXCEPT
                  !.pc = NextStage("output", conns[c].result),
                  !.holds = Release(@, SessionsLocks),
                  !.replies = Append(@, [output |-> output, result |-> r.result])])
    /\ UNCHANGED <<received, nextClientId, lobbyVars, sret, sissued>>

\* process_input: broadcast(&sessions, subscription_output)
BroadcastStep(c) ==
    /\ conns[c].pc = "broadcast"
    /\ LET output == conns[c].result.subscription_output.value
           r == Broadcast(sessions, channels, output)
       IN  /\ channels' = r.channels
           /\ sessions' = sessions
           /\ Continue(c, [conns[c] EXCEPT
                  !.pc = NextStage("broadcast", conns[c].result),
                  !.holds = Release(@, SessionsLocks),
                  !.broadcasts = Append(@, [output |-> output,
                                            result |-> r.result,
                                            sessions |-> sessions,
                                            before |-> channels,
                                            after |-> r.channels])])
    /\ UNCHANGED <<received, nextClientId, lobbyVars, sret, sissued>>

\* process_input: the match on the action
ActionStep(c) ==
    /\ conns[c].pc = "action"
    /\ LET action == conns[c].result.action
           r == IF action.kind = "UpdateUserType"
                THEN Write(sessions, conns[c].client_id, "user_type",
                           action.user_type)
                ELSE Write(sessions, conns[c].client_id, "subscribed",
                           action.subscribed)
       IN  /\ sessions' = r.sessions
           /\ channels' = channels
           /\ Continue(c, [conns[c] EXCEPT
                  !.pc = "done",
                  !.holds = Release(@, SessionsLocks)])
    /\ UNCHANGED <<received, nextClientId, lobbyVars, sret, sissued>>

\* the inbound messages that are still to come
InputsLeft == received < MaxInputs

Next ==
    \/ \E c \in Connections : Connect(c)
    \/ \E c \in Connections, input \in Inputs : InputsLeft /\ Receive(c, input)
    \/ \E c \in Connections : InputsLeft /\ ReceiveInvalid(c)
    \/ \E c \in Connections : InputsLeft /\ ReceiveNonText(c)
    \/ \E c \in Connections : Disconnect(c)
    \/ \E c \in Connections : ProcessStep(c)
    \/ \E c \in Connections : OutputStep(c)
    \/ \E c \in Connections : BroadcastStep(c)
    \/ \E c \in Connections : ActionStep(c)

Spec == Init /\ [][Next]_vars

\* clients that stay connected, log in, subscribe and change tables that
\* are there: the commands that lead to events for subscribers
EventInputs ==
    { Login("admin", "admin"), Login("user", "user"), SubscribeTables,
      AddTable(ABSENT, TableToAdd("table - Foo Fighters", 4)),
      UpdateTable(Table(FirstTableId, "Updated", 5)),
      RemoveTable(FirstTableId) }

EventInputsLeft == received < MaxEventInputs

NextEvents ==
    \/ \E c \in Connections : Connect(c)
    \/ \E c \in Connections, input \in EventInputs :
          EventInputsLeft /\ Receive(c, input)
    \/ \E c \in Connections : ProcessStep(c)
    \/ \E c \in Connections : OutputStep(c)
    \/ \E c \in Connections : BroadcastStep(c)
    \/ \E c \in Connections : ActionStep(c)

SpecEvents == Init /\ [][NextEvents]_vars

\* clients that come and go, log in as administrators, subscribe,
\* unsubscribe and add tables
SubscriptionInputs ==
    { Login("admin", "admin"), SubscribeTables, UnsubscribeTables,
      AddTable(ABSENT, TableToAdd("table - Foo Fighters", 4)) }

SubscriptionInputsLeft == received < MaxSubscriptionInputs

NextSubscriptions ==
    \/ \E c \in Connections : Connect(c)
    \/ \E c \in Connections, input \in SubscriptionInputs :
          SubscriptionInputsLeft /\ Receive(c, input)
    \/ \E c \in Connections : Disconnect(c)
    \/ \E c \in Connections : ProcessStep(c)
    \/ \E c \in Connections : OutputStep(c)
    \/ \E c \in Connections : BroadcastStep(c)
    \/ \E c \in Connections : ActionStep(c)

SpecSubscriptions == Init /\ [][NextSubscriptions]_vars

\* clients that log in, subscribe and then send a wrong password, and
\* administrators that add tables
ReloginInputs ==
    { Login("admin", "admin"), Login("user", "pass"), SubscribeTables,
      AddTable(ABSENT, TableToAdd("table - Foo Fighters", 4)) }

ReloginInputsLeft == received < MaxReloginInputs

NextRelogin ==
    \/ \E c \in Connections : Connect(c)
    \/ \E c \in Connections, input \in ReloginInputs :
          ReloginInputsLeft /\ Receive(c, input)
    \/ \E c \in Connections : ProcessStep(c)
    \/ \E c \in Connections : OutputStep(c)
    \/ \E c \in Connections : BroadcastStep(c)
    \/ \E c \in Connections : ActionStep(c)

SpecRelogin == Init /\ [][NextRelogin]_vars

----------------------------------------------------------------------------
(* web_socket.rs : the tasks with the acquisition of a lock as a step of    *)
(* its own.  The tasks run on the workers of the runtime, so a task can be  *)
(* between the acquisition of a guard and its drop while another task runs, *)
(* and two tasks that hold the read guard of the sessions advance their     *)
(* broadcasts independently of each other, one client_sender.send at a      *)
(* time.                                                                    *)

\* the lock that service::process takes on the lobby for the input and role
LobbyAccess(input, user_type) ==
    IF ~user_type.some THEN "none"
    ELSE IF input.type = "subscribe_tables" THEN "lobby_read"
    ELSE IF user_type.value = "Admin"
            /\ input.type \in {"add_table", "update_table", "remove_table"}
         THEN "lobby_write"
    ELSE "none"

\* the lock the next step of process_input needs
Needed(conn) ==
    CASE conn.pc = "process" -> LobbyAccess(conn.input, conn.user_type)
      [] conn.pc \in {"output", "broadcast"} -> "sessions_read"
      [] conn.pc = "action" -> "sessions_write"
      [] OTHER -> "none"

ResourceOf(lock) == IF lock \in LobbyLocks THEN LobbyLocks ELSE SessionsLocks

\* a lock that can be taken although another task holds it
AvailableAlways(c, lock) == TRUE

\* RwLock: a read guard excludes the write guards of the other tasks, a
\* write guard every guard of the other tasks
Available(c, lock) ==
    \A d \in Connections \ {c} :
        IF lock \in {"lobby_read", "sessions_read"}
        THEN conns[d].holds \cap ResourceOf(lock) \cap
                 {"lobby_write", "sessions_write"} = {}
        ELSE conns[d].holds \cap ResourceOf(lock) = {}

\* a channel with room for one message only
HasCapacityForOne(chs, ch) == Len(chs[ch].queue) < 1

\* mpsc::unbounded_channel: there is always room for a message, send does
\* not wait
HasCapacity(chs, ch) == TRUE

RECURSIVE Ascending(_)
Ascending(ids) ==
    IF ids = {} THEN << >>
    ELSE LET least == CHOOSE x \in ids : \A y \in ids : x <= y
         IN  <<least>> \o Ascending(ids \ {least})

\* the subscribed sessions in the order in which values() yields them: the
\* order of a HashMap, the same for all scans of an unchanged map
Scan(sess) == Ascending({ id \in DOMAIN sess : sess[id].subscribed })

\* the task has the guard its next step works under
Ready(c) == Needed(conns[c]) \in conns[c].holds \cup {"none"}

\* lobby.read().await, lobby.write().await, sessions.read().await,
\* sessions.write().await: the task gets the guard
Acquire(c) ==
    /\ Needed(conns[c]) \notin conns[c].holds \cup {"none"}
    /\ Available(c, Needed(conns[c]))
    /\ conns' = [conns EXCEPT
                    ![c].holds = @ \cup {Needed(conns[c])},
                    ![c].scan = IF conns[c].pc = "broadcast"
                                THEN Scan(sessions) ELSE @]
    /\ UNCHANGED <<last, received, nextClientId, lobbyVars, sessVars>>

\* SharedSessions::broadcast under its read guard: one client_sender.send,
\* and the drop of the guard after the last one
BroadcastSend(c) ==
    /\ conns[c].pc = "broadcast"
    /\ "sessions_read" \in conns[c].holds
    /\ LET output == conns[c].result.subscription_output.value
           scan == conns[c].scan
           rest == IF scan = << >> THEN << >> ELSE Tail(scan)
       IN  /\ scan # << >> =>
                  HasCapacity(channels, sessions[Head(scan)].client_sender)
           /\ channels' =
                  IF scan = << >> THEN channels
                  ELSE SenderSend(channels, sessions[Head(scan)].client_sender,
                                  output).channels
           /\ sessions' = sessions
           /\ IF rest = << >>
              THEN Continue(c, [conns[c] EXCEPT
                       !.pc = NextStage("broadcast", conns[c].result),
                       !.holds = Release(@, SessionsLocks),
                       !.scan = << >>,
                       !.broadcasts = Append(@, [output |-> output])])
              ELSE Continue(c, [conns[c] EXCEPT !.scan = rest])
    /\ UNCHANGED <<received, nextClientId, lobbyVars, sret, sissued>>

\* no task holds a guard of the sessions
SessionsIdle == \A d \in Connections : conns[d].holds \cap SessionsLocks = {}

\* no task holds the write guard of the sessions
SessionsReadable == \A d \in Connections : "sessions_write" \notin conns[d].holds

\* process_output(client_id, &sessions, output) under the read guard
OutputReady(c) ==
    /\ Ready(c)
    /\ conns[c].pc = "output" =>
           (conns[c].client_id \in DOMAIN sessions =>
                HasCapacity(channels, sessions[conns[c].client_id].client_sender))

\* clients that log in, subscribe, unsubscribe and add tables
LockInputs ==
    { Login("admin", "admin"), SubscribeTables, UnsubscribeTables,
      AddTable(ABSENT, TableToAdd("table - Foo Fighters", 4)) }

LockInputsLeft == received < MaxLockInputs

NextLocks ==
    \/ \E c \in Connections : SessionsIdle /\ Connect(c)
    \/ \E c \in Connections, input \in LockInputs :
          LockInputsLeft /\ SessionsReadable /\ Receive(c, input)
    \/ \E c \in Connections : SessionsIdle /\ Disconnect(c)
    \/ \E c \in Connections : Acquire(c)
    \/ \E c \in Connections : Ready(c) /\ ProcessStep(c)
    \/ \E c \in Connections : OutputReady(c) /\ OutputStep(c)
    \/ \E c \in Connections : BroadcastSend(c)
    \/ \E c \in Connections : Ready(c) /\ ActionStep(c)

SpecLocks == Init /\ [][NextLocks]_vars

\* the steps of the task of connection c that do not wait for a client
TaskStep(c) ==
    \/ Ready(c) /\ ProcessStep(c)
    \/ OutputReady(c) /\ OutputStep(c)
    \/ BroadcastSend(c)
    \/ Ready(c) /\ ActionStep(c)

\* the runtime polls every task that can run, and the RwLock of tokio hands
\* its guards out in the order of the requests, so a task that asks for a
\* guard gets it when the lock has been free often enough
Fairness ==
    \A c \in Connections : WF_vars(TaskStep(c)) /\ SF_vars(Acquire(c))

\* clients that stay connected, log in as administrators, subscribe and add
\* tables
FairInputs ==
    { Login("admin", "admin"), SubscribeTables,
      AddTable(ABSENT, TableToAdd("table - Foo Fighters", 4)) }

FairInputsLeft == received < MaxFairInputs

NextFair ==
    \/ \E c \in Connections : SessionsIdle /\ Connect(c)
    \/ \E c \in Connections, input \in FairInputs :
          FairInputsLeft /\ SessionsReadable /\ Receive(c, input)
    \/ \E c \in Connections : Acquire(c)
    \/ \E c \in Connections : Ready(c) /\ ProcessStep(c)
    \/ \E c \in Connections : OutputReady(c) /\ OutputStep(c)
    \/ \E c \in Connections : BroadcastSend(c)
    \/ \E c \in Connections : Ready(c) /\ ActionStep(c)

SpecFair == Init /\ [][NextFair]_vars /\ Fairness

\* administrators that log in, subscribe and add tables
OrderingInputs ==
    { Login("admin", "admin"), SubscribeTables,
      AddTable(ABSENT, TableToAdd("table - Foo Fighters", 4)) }

OrderingInputsLeft == received < MaxOrderingInputs

NextOrdering ==
    \/ \E c \in Connections : SessionsIdle /\ Connect(c)
    \/ \E c \in Connections, input \in OrderingInputs :
          OrderingInputsLeft /\ SessionsReadable /\ Receive(c, input)
    \/ \E c \in Connections : Acquire(c)
    \/ \E c \in Connections : Ready(c) /\ ProcessStep(c)
    \/ \E c \in Connections : OutputReady(c) /\ OutputStep(c)
    \/ \E c \in Connections : BroadcastSend(c)
    \/ \E c \in Connections : Ready(c) /\ ActionStep(c)

SpecOrdering == Init /\ [][NextOrdering]_vars

----------------------------------------------------------------------------
(* main.rs and lobby_session.rs : the crate root and its dispatcher.  The   *)
(* clients map of main.rs has the fields of the sessions of session.rs and  *)
(* is kept in the same variable; a todo!() panics, and a panic unwinds the  *)
(* task of the connection out of handle_connect.                            *)

\* what a call of lobby_session::process comes to: a ProcessResult or a panic
ProcessReturned(result) == [panicked |-> FALSE, result |-> result]

ProcessPanicked == [panicked |-> TRUE, result |-> NoResult]

LegacyPing(seq) == ProcessResult(Some(PongSeq(seq)), None, DoNothing)

LegacyLogin(username, password) ==
    LET user_type == Credentials(username, password)
        output == IF user_type.some THEN LoginSuccessful(user_type.value)
                  ELSE LoginFailed
    IN  ProcessResult(Some(output), None, UpdateUserType(user_type))

LegacyProcessUnauthenticated(input) ==
    IF input.type = "login"
    THEN ProcessReturned(LegacyLogin(input.username, input.password))
    ELSE ProcessReturned(ProcessResult(Some(NotAuthenticated), None, DoNothing))

LegacyProcessUser(input) ==
    CASE input.type = "ping" -> ProcessReturned(LegacyPing(input.seq))
      [] input.type = "login" ->
            ProcessReturned(LegacyLogin(input.username, input.password))
      [] input.type \in {"subscribe_tables", "unsubscribe_tables"} -> ProcessPanicked
      [] input.type \in {"add_table", "update_table", "remove_table"} ->
            ProcessReturned(ProcessResult(Some(NotAuthorized), None, DoNothing))

LegacyProcessAdmin(input) ==
    CASE input.type = "ping" -> ProcessReturned(LegacyPing(input.seq))
      [] input.type = "login" ->
            ProcessReturned(LegacyLogin(input.username, input.password))
      [] input.type \in {"subscribe_tables", "unsubscribe_tables", "add_table",
                         "update_table", "remove_table"} -> ProcessPanicked

\* lobby_session::process
LegacyProcess(user_type, input) ==
    IF ~user_type.some THEN LegacyProcessUnauthenticated(input)
    ELSE IF user_type.value = "User" THEN LegacyProcessUser(input)
    ELSE LegacyProcessAdmin(input)

\* main.rs handle_connect up to the receive loop
LegacyConnect(c) == Connect(c)

\* main.rs process_input on a text message that deserializes: the role is
\* read from the clients map, None when the session is not there, and
\* lobby_session::process is called with it
LegacyReceive(c, input) ==
    /\ conns[c].pc = "recv"
    /\ received' = received + 1
    /\ LET session == SessionOf(sessions, conns[c].client_id)
           user_type == IF session.some THEN session.value.user_type ELSE None
           p == LegacyProcess(user_type, input)
           conn == [conns[c] EXCEPT !.input = input,
                                    !.session_before = session,
                                    !.user_type = user_type,
                                    !.result = p.result,
                                    !.lobby_before = tables,
                                    !.lobby_after = tables]
       IN  /\ UNCHANGED <<sessions, channels>>
           /\ IF p.panicked
              THEN Continue(c, [conn EXCEPT !.pc = "panicked"])
              ELSE Continue(c, [conn EXCEPT
                                   !.pc = IF p.result.output.some THEN "output"
                                          ELSE IF p.result.action.kind # "DoNothing"
                                               THEN "action"
                                          ELSE "done"])
    /\ UNCHANGED <<nextClientId, lobbyVars, sret, sissued>>

\* main.rs process_input on a text message that does not deserialize
LegacyReceiveInvalid(c) == ReceiveInvalid(c)

\* main.rs handle_connect on a message that is not text
LegacyReceiveNonText(c) == ReceiveNonText(c)

\* main.rs process_output
LegacyOutputStep(c) ==
    /\ conns[c].pc = "output"
    /\ LET output == conns[c].result.output.value
           r == Send(sessions, channels, conns[c].client_id, output)
       IN  /\ channels' = r.channels
           /\ sessions' = sessions
           /\ Continue(c, [conns[c] EXCEPT
                  !.pc = IF conns[c].result.action.kind # "DoNothing"
                         THEN "action" ELSE "done",
                  !.replies = Append(@, [output |-> output, result |-> r.result])])
    /\ UNCHANGED <<received, nextClientId, lobbyVars, sret, sissued>>

\* main.rs process_input: the match on the action
LegacyActionStep(c) ==
    /\ conns[c].pc = "action"
    /\ sessions' = Write(sessions, conns[c].client_id, "user_type",
                         conns[c].result.action.user_type).sessions
    /\ channels' = channels
    /\ Continue(c, [conns[c] EXCEPT !.pc = "done"])
    /\ UNCHANGED <<received, nextClientId, lobbyVars, sret, sissued>>

\* main.rs: the receive loop is left and handle_disconnect removes the session
LegacyDisconnect(c) == Disconnect(c)

LegacyInputsLeft == received < MaxLegacyInputs

NextLegacy ==
    \/ \E c \in Connections : LegacyConnect(c)
    \/ \E c \in Connections, input \in Inputs :
          LegacyInputsLeft /\ LegacyReceive(c, input)
    \/ \E c \in Connections : LegacyInputsLeft /\ LegacyReceiveInvalid(c)
    \/ \E c \in Connections : LegacyInputsLeft /\ LegacyReceiveNonText(c)
    \/ \E c \in Connections : LegacyOutputStep(c)
    \/ \E c \in Connections : LegacyActionStep(c)
    \/ \E c \in Connections : LegacyDisconnect(c)

SpecLegacy == Init /\ [][NextLegacy]_vars

----------------------------------------------------------------------------
(* Properties of the table registry, checked under SpecLobby *)

HasId(list, id) == \E i \in 1..Len(list) : list[i].id = id

WithoutId(list, id) == SelectSeq(list, LAMBDA x : x.id /= id)

\* C1: add with after_id = ABSENT succeeds, the returned table is at index 0
\* afterwards, the length grows by exactly one, and the tables already
\* present keep their relative order.
C1_AddInFront ==
    (ret.call.op = "add_table" /\ ret.call.after_id = ABSENT) =>
        /\ ret.result.ok
        /\ Len(tables) = Len(ret.before) + 1
        /\ tables[1] = ret.result.value
        /\ SubSeq(tables, 2, Len(tables)) = ret.before

C1_Witness ==
    /\ ret.call.op = "add_table"
    /\ ret.call.after_id = ABSENT
    /\ ret.result.ok
    /\ Len(ret.before) >= 2

\* C2: when a table with id after_id is at index i, add(after_id, t) succeeds,
\* the returned table is at index i + 1 afterwards, the table with id after_id
\* is still at index i, the length grows by exactly one, and the returned table
\* has the name and participants of t and an id no table had before.
C2_AddAfter ==
    (ret.call.op = "add_table") =>
        \A i \in 1..Len(ret.before) :
            (ret.before[i].id = ret.call.after_id) =>
                /\ ret.result.ok
                /\ Len(tables) = Len(ret.before) + 1
                /\ tables[i + 1] = ret.result.value
                /\ tables[i] = ret.before[i]
                /\ ret.result.value.name = ret.call.table_to_add.name
                /\ ret.result.value.participants = ret.call.table_to_add.participants
                /\ ~HasId(ret.before, ret.result.value.id)
                /\ ret.result.value.id /= ABSENT
                /\ WithoutId(tables, ret.result.value.id) = ret.before

C2_Witness ==
    /\ ret.call.op = "add_table"
    /\ Len(ret.before) >= 2
    /\ ret.before[1].id = ret.call.after_id
    /\ ret.result.ok

\* C3: add after an id that is neither ABSENT nor in the registry, update of
\* an absent id and remove of an absent id return an error and leave the whole
\* list, contents and order, as it was.
C3_UnknownIdNoChange ==
    /\ (/\ ret.call.op = "add_table"
        /\ ret.call.after_id /= ABSENT
        /\ ~HasId(ret.before, ret.call.after_id))
           => (~ret.result.ok /\ tables = ret.before)
    /\ (ret.call.op = "update_table" /\ ~HasId(ret.before, ret.call.table.id))
           => (~ret.result.ok /\ tables = ret.before)
    /\ (ret.call.op = "remove_table" /\ ~HasId(ret.before, ret.call.id))
           => (~ret.result.ok /\ tables = ret.before)

C3_Witness ==
    /\ ret.call.op = "add_table"
    /\ ret.call.after_id /= ABSENT
    /\ ~HasId(ret.before, ret.call.after_id)
    /\ ~ret.result.ok
    /\ Len(ret.before) >= 2

\* C4: update of a table whose id k is at index i succeeds, returns a table
\* equal to the supplied one, and leaves at index i the id k with the supplied
\* name and participants; the length, the order and every other entry stay.
C4_Update ==
    (ret.call.op = "update_table" /\ HasId(ret.before, ret.call.table.id)) =>
        /\ ret.result.ok
        /\ ret.result.value = ret.call.table
        /\ Len(tables) = Len(ret.before)
        /\ \A i \in 1..Len(ret.before) :
              IF ret.before[i].id = ret.call.table.id
              THEN tables[i] = Table(ret.call.table.id, ret.call.table.name,
                                     ret.call.table.participants)
              ELSE tables[i] = ret.before[i]

C4_Witness ==
    /\ ret.call.op = "update_table"
    /\ Len(ret.before) >= 2
    /\ ret.before[2].id = ret.call.table.id
    /\ ret.before[2].name /= ret.call.table.name
    /\ ret.result.ok

\* C5: remove(k) of a present id succeeds and returns k; afterwards the list
\* is shorter by exactly one, no entry has id k, and the other entries are
\* unchanged and in the same order.
C5_Remove ==
    (ret.call.op = "remove_table" /\ HasId(ret.before, ret.call.id)) =>
        /\ ret.result.ok
        /\ ret.result.value = ret.call.id
        /\ Len(tables) = Len(ret.before) - 1
        /\ ~HasId(tables, ret.call.id)
        /\ tables = WithoutId(ret.before, ret.call.id)

C5_Witness ==
    /\ ret.call.op = "remove_table"
    /\ Len(ret.before) >= 3
    /\ ret.before[2].id = ret.call.id
    /\ ret.result.ok

\* C6: in every reachable state, whatever the interleaving of the tasks'
\* add, update and remove calls, no two entries of the list have the same id.
C6_NoDuplicateIds ==
    \A i, j \in 1..Len(tables) : (i /= j) => (tables[i].id /= tables[j].id)

C6_Witness ==
    /\ Len(tables) >= 4
    /\ ret.call.op = "add_table"
    /\ ret.result.ok
    /\ ret.task \in Tasks

\* C7: the list a read_tables returns equals the sequential reference list
\* obtained by applying the calls one at a time, in the order in which they
\* acquired the lock, up to the moment the reader acquired it.
C7_Linearizable ==
    (ret.call.op = "read_tables") => (ret.result = refRet)

C7_Witness ==
    /\ ret.call.op = "read_tables"
    /\ Len(ret.result) = 2
    /\ \E i \in 1..Len(ret.result) : ret.result[i].id = FetchAdd(FetchAdd(FirstTableId))

----------------------------------------------------------------------------
(* Properties of the session directory, checked under SpecSessions *)

Registered(client_id) == client_id \in DOMAIN sret.before.sessions

SenderOf(client_id) == sret.before.sessions[client_id].client_sender

\* C8: immediately after add(id, handle) the session of id exists with role
\* None (read_user_type returns Ok(None)) and subscribed = false, whatever was
\* stored under id before.
C8_AddResetsSession ==
    (sret.op = "add") =>
        /\ sret.client_id \in DOMAIN sret.after.sessions
        /\ sret.after.sessions[sret.client_id].user_type = None
        /\ sret.after.sessions[sret.client_id].subscribed = FALSE
        /\ ReadUserType(sret.after.sessions, sret.client_id) = Ok(None)

C8_Witness ==
    /\ sret.op = "add"
    /\ Registered(sret.client_id)
    /\ sret.before.sessions[sret.client_id].user_type = Some("Admin")
    /\ sret.before.sessions[sret.client_id].subscribed

\* C9 as stated: send(id, m) to a registered session appends exactly m, once,
\* to the queue of session id and to no other queue, and leaves every
\* session's role and subscribed flag unchanged.
C9_SendAlwaysAppends ==
    (sret.op = "send" /\ Registered(sret.client_id)) =>
        /\ sret.after.channels =
              [sret.before.channels EXCEPT
                  ![SenderOf(sret.client_id)].queue = Append(@, sret.arg)]
        /\ sret.after.sessions = sret.before.sessions

\* C9 as amended: send(id, m) to a registered session whose channel still has
\* its receiving half returns Ok and appends exactly m, once, to the queue of
\* session id and to no other queue; when the receiving half is gone it
\* returns an error and no queue changes; in both cases every session's role
\* and subscribed flag are unchanged.
C9_SendAppendsWhenOpen ==
    (sret.op = "send" /\ Registered(sret.client_id)) =>
        /\ sret.after.sessions = sret.before.sessions
        /\ IF sret.before.channels[SenderOf(sret.client_id)].rx_open
           THEN /\ sret.result.ok
                /\ sret.after.channels =
                      [sret.before.channels EXCEPT
                          ![SenderOf(sret.client_id)].queue = Append(@, sret.arg)]
           ELSE /\ ~sret.result.ok
                /\ sret.after.channels = sret.before.channels

C9_Witness ==
    /\ sret.op = "send"
    /\ Registered(sret.client_id)
    /\ sret.result.ok
    /\ Cardinality(DOMAIN sret.before.sessions) >= 2
    /\ \A id \in DOMAIN sret.before.sessions :
          sret.before.channels[sret.before.sessions[id].client_sender].rx_open

\* C10: send, read_user_type, write_user_type and write_subscribed with a
\* client id that is not in the directory return an error, enqueue nothing on
\* any channel and leave the directory unchanged; no session is created.
C10_MissingSessionFails ==
    (/\ sret.op \in {"send", "read_user_type", "write_user_type", "write_subscribed"}
     /\ ~Registered(sret.client_id)) =>
        /\ ~sret.result.ok
        /\ sret.after.channels = sret.before.channels
        /\ sret.after.sessions = sret.before.sessions
        /\ sret.client_id \notin DOMAIN sret.after.sessions

C10_Witness ==
    /\ sret.op = "write_user_type"
    /\ ~Registered(sret.client_id)
    /\ sret.before.sessions /= << >>
    /\ ~sret.result.ok

\* ---------------------------------------------------------------------
\* broadcast

SubscribedBefore == { id \in DOMAIN sret.before.sessions :
                        sret.before.sessions[id].subscribed }

QueueBefore(client_id) == sret.before.channels[SenderOf(client_id)].queue

QueueAfter(client_id) == sret.after.channels[SenderOf(client_id)].queue

ReceiverOpen(client_id) == sret.before.channels[SenderOf(client_id)].rx_open

\* C11 as stated: broadcast(m) appends m once to the channel of every
\* session that is subscribed at the scan and nothing to the channel of any
\* session that is not.
C11_BroadcastReachesAllSubscribed ==
    sret.op = "broadcast" =>
        \A id \in DOMAIN sret.before.sessions :
            QueueAfter(id) = IF id \in SubscribedBefore
                             THEN Append(QueueBefore(id), sret.arg)
                             ELSE QueueBefore(id)

\* C11: broadcast(m) appends m once to the channel of every session that is
\* subscribed at the scan and whose receiver is still there, and nothing to
\* the channel of any other session.
C11_BroadcastReachesOpenSubscribed ==
    sret.op = "broadcast" =>
        /\ sret.after.sessions = sret.before.sessions
        /\ \A id \in DOMAIN sret.before.sessions :
              QueueAfter(id) = IF id \in SubscribedBefore /\ ReceiverOpen(id)
                               THEN Append(QueueBefore(id), sret.arg)
                               ELSE QueueBefore(id)

C11_Witness ==
    /\ sret.op = "broadcast"
    /\ \E id \in SubscribedBefore :
          QueueAfter(id) = Append(QueueBefore(id), sret.arg)
    /\ \E id \in DOMAIN sret.before.sessions \ SubscribedBefore :
          ReceiverOpen(id)

\* C12: when some deliveries of a broadcast fail, every other subscriber
\* still gets the message, and the BroadcastResult splits the subscribed
\* sessions in two: success and failure are disjoint, together they are the
\* subscribed sessions, and an id is in failure exactly when nothing was
\* delivered to it.
C12_BroadcastResultPartition ==
    sret.op = "broadcast" =>
        LET success == sret.result.success_client_ids
            failure == sret.result.failure_client_ids
        IN  /\ success \cap failure = {}
            /\ success \cup failure = SubscribedBefore
            /\ \A id \in SubscribedBefore :
                  /\ id \in failure <=> ~ReceiverOpen(id)
                  /\ id \in failure <=> QueueAfter(id) = QueueBefore(id)
                  /\ id \in success <=>
                        QueueAfter(id) = Append(QueueBefore(id), sret.arg)

C12_Witness ==
    /\ sret.op = "broadcast"
    /\ sret.result.failure_client_ids # {}
    /\ sret.result.success_client_ids # {}

\* ---------------------------------------------------------------------
\* the dispatcher, seen through the last message that was processed

Mutations == {"add_table", "update_table", "remove_table"}

Commands ==
    {"ping", "login", "subscribe_tables", "unsubscribe_tables"} \cup Mutations

Replies == [i \in DOMAIN last.replies |-> last.replies[i].output]

RoleBefore == last.session_before.value.user_type

RoleAfter == last.session_after.value.user_type

\* the session of the sender is as it was when the message came in
SessionUnchanged == last.session_after = last.session_before

RegistryUnchanged == last.lobby_after = last.lobby_before

\* C13: a session without a role that sends any command but Login gets the
\* one reply NotAuthenticated; nothing is broadcast and its role, its
\* subscribed flag and the registry stay as they are.
C13_UnauthenticatedRejected ==
    (last.input.type \in Commands \ {"login"} /\ RoleBefore = None) =>
        /\ Replies = << NotAuthenticated >>
        /\ last.broadcasts = << >>
        /\ SessionUnchanged
        /\ RegistryUnchanged

C13_Witness ==
    /\ last.input.type = "remove_table"
    /\ RoleBefore = None
    /\ HasId(last.lobby_before, last.input.id)
    /\ Replies = << NotAuthenticated >>

\* C14: a User that sends AddTable, UpdateTable or RemoveTable, whatever the
\* arguments, gets the one reply NotAuthorized; nothing is broadcast and its
\* session and the registry stay as they are.
C14_UserNotAuthorized ==
    (last.input.type \in Mutations /\ RoleBefore = Some("User")) =>
        /\ Replies = << NotAuthorized >>
        /\ last.broadcasts = << >>
        /\ SessionUnchanged
        /\ RegistryUnchanged

C14_Witness ==
    /\ last.input.type = "remove_table"
    /\ RoleBefore = Some("User")
    /\ HasId(last.lobby_before, last.input.id)
    /\ Replies = << NotAuthorized >>

\* the mutation of the last message finds what it refers to in the registry
MutationSucceeds ==
    CASE last.input.type = "add_table" ->
            \/ last.input.after_id = ABSENT
            \/ HasId(last.lobby_before, last.input.after_id)
      [] last.input.type = "update_table" ->
            HasId(last.lobby_before, last.input.table.id)
      [] last.input.type = "remove_table" ->
            HasId(last.lobby_before, last.input.id)

InRegistry(list, table) == \E i \in 1..Len(list) : list[i] = table

\* event is the event of the last message: TableAdded with the afterId of
\* the request and the table that was created, TableUpdated with the table
\* as it is now, TableRemoved with the id
EventMatches(event) ==
    CASE last.input.type = "add_table" ->
            /\ event.type = "table_added"
            /\ event.after_id = last.input.after_id
            /\ event.table.name = last.input.table.name
            /\ event.table.participants = last.input.table.participants
            /\ ~HasId(last.lobby_before, event.table.id)
            /\ InRegistry(last.lobby_after, event.table)
      [] last.input.type = "update_table" ->
            /\ event.type = "table_updated"
            /\ event.table = last.input.table
            /\ InRegistry(last.lobby_after, event.table)
      [] last.input.type = "remove_table" ->
            /\ event.type = "table_removed"
            /\ event.id = last.input.id
            /\ ~HasId(last.lobby_after, event.id)

BroadcastQueueBefore(b, id) == b.before[b.sessions[id].client_sender].queue

BroadcastQueueAfter(b, id) == b.after[b.sessions[id].client_sender].queue

\* C15: when the mutation of an Admin succeeds, the Admin gets no direct
\* reply and the matching event is enqueued once for every session that is
\* subscribed when it is broadcast and for no other; the Admin itself gets
\* the event exactly when it is subscribed.
C15_AdminSuccessBroadcast ==
    (last.input.type \in Mutations /\ RoleBefore = Some("Admin")
        /\ MutationSucceeds) =>
        /\ Replies = << >>
        /\ Len(last.broadcasts) = 1
        /\ LET b == last.broadcasts[1]
           IN  /\ EventMatches(b.output)
               /\ \A id \in DOMAIN b.sessions :
                     BroadcastQueueAfter(b, id) =
                         IF b.sessions[id].subscribed
                         THEN Append(BroadcastQueueBefore(b, id), b.output)
                         ELSE BroadcastQueueBefore(b, id)
               /\ last.client_id \in DOMAIN b.sessions
               /\ (b.sessions[last.client_id].subscribed) <=>
                     BroadcastQueueAfter(b, last.client_id) =
                         Append(BroadcastQueueBefore(b, last.client_id), b.output)

C15_Witness ==
    /\ last.input.type = "add_table"
    /\ RoleBefore = Some("Admin")
    /\ Len(last.broadcasts) = 1
    /\ LET b == last.broadcasts[1]
       IN  /\ ~b.sessions[last.client_id].subscribed
           /\ \E id \in DOMAIN b.sessions :
                 /\ id # last.client_id
                 /\ b.sessions[id].subscribed
                 /\ BroadcastQueueAfter(b, id) =
                        Append(BroadcastQueueBefore(b, id), b.output)

\* the reply to a mutation that does not find what it refers to
FailureReply ==
    CASE last.input.type = "add_table" -> TableAddFailed
      [] last.input.type = "update_table" ->
            TableUpdateFailed(last.input.table.id)
      [] last.input.type = "remove_table" -> TableRemoveFailed(last.input.id)

\* C16: when the mutation of an Admin fails, the Admin gets the one failure
\* reply (with the requested id for update and remove), no event is
\* broadcast and the registry stays as it is.
C16_AdminFailureReply ==
    (last.input.type \in Mutations /\ RoleBefore = Some("Admin")
        /\ ~MutationSucceeds) =>
        /\ Replies = << FailureReply >>
        /\ last.broadcasts = << >>
        /\ RegistryUnchanged

C16_Witness ==
    /\ last.input.type = "update_table"
    /\ RoleBefore = Some("Admin")
    /\ ~MutationSucceeds
    /\ Replies = << TableUpdateFailed(TABLE_ID_INVALID) >>

LoginAs(username, password) ==
    /\ last.input.type = "login"
    /\ last.input.username = username
    /\ last.input.password = password

LoginWithOther ==
    /\ last.input.type = "login"
    /\ ~LoginAs("admin", "admin")
    /\ ~LoginAs("user", "user")

\* C17: Login is handled the same whatever the role: (admin, admin) is
\* answered LoginSuccessful{Admin} and the role becomes Admin, (user, user)
\* is answered LoginSuccessful{User} and the role becomes User, any other
\* pair is answered LoginFailed; Login never broadcasts and never changes
\* the subscribed flag or the registry.
C17_Login ==
    last.input.type = "login" =>
        /\ LoginAs("admin", "admin") =>
              /\ Replies = << LoginSuccessful("Admin") >>
              /\ RoleAfter = Some("Admin")
        /\ LoginAs("user", "user") =>
              /\ Replies = << LoginSuccessful("User") >>
              /\ RoleAfter = Some("User")
        /\ LoginWithOther => Replies = << LoginFailed >>
        /\ last.broadcasts = << >>
        /\ last.session_after.value.subscribed
              = last.session_before.value.subscribed
        /\ RegistryUnchanged

C17_Witness ==
    /\ LoginAs("user", "user")
    /\ RoleBefore = Some("Admin")
    /\ RoleAfter = Some("User")

\* C18: a Login with any other pair is answered LoginFailed and leaves the
\* session without a role, whatever role it had.
C18_FailedLoginClearsRole ==
    LoginWithOther =>
        /\ Replies = << LoginFailed >>
        /\ RoleAfter = None

C18_Witness ==
    /\ LoginWithOther
    /\ RoleBefore = Some("Admin")
    /\ RoleAfter = None

\* C19 as stated: a failed Login of a session that has a role leaves the
\* role as it was.
C19_FailedLoginKeepsRole ==
    (LoginWithOther /\ RoleBefore # None) => RoleAfter = RoleBefore

\* C19: a failed Login of a session that has a role takes the role away.
C19_FailedReloginLosesRole ==
    (LoginWithOther /\ RoleBefore # None) =>
        /\ RoleAfter = None
        /\ RoleAfter # RoleBefore

C19_Witness ==
    /\ LoginWithOther
    /\ RoleBefore = Some("User")
    /\ Replies = << LoginFailed >>
    /\ RoleAfter = None

\* C20: SubscribeTables of a User or an Admin, subscribed already or not,
\* sets subscribed and is answered with the one reply TableList with the
\* tables of the registry, in their order, as they were read; nothing is
\* broadcast and the role and the registry stay as they are.
C20_Subscribe ==
    (last.input.type = "subscribe_tables" /\ RoleBefore # None) =>
        /\ Replies = << TableList(last.lobby_before) >>
        /\ last.broadcasts = << >>
        /\ last.session_after.value.subscribed
        /\ RoleAfter = RoleBefore
        /\ RegistryUnchanged

C20_Witness ==
    /\ last.input.type = "subscribe_tables"
    /\ RoleBefore = Some("User")
    /\ last.session_before.value.subscribed
    /\ last.lobby_before # << >>
    /\ Replies = << TableList(last.lobby_before) >>

\* C22: Ping{seq} of a User or an Admin is answered with the one reply Pong
\* with the same seq; nothing is broadcast and the session and the registry
\* stay as they are.
C22_Ping ==
    (last.input.type = "ping" /\ RoleBefore # None) =>
        /\ Len(last.replies) = 1
        /\ Replies[1].type = "pong"
        /\ Replies[1].seq = last.input.seq
        /\ last.replies[1].result.ok
        /\ last.broadcasts = << >>
        /\ SessionUnchanged
        /\ RegistryUnchanged

C22_Witness ==
    /\ last.input.type = "ping"
    /\ last.input.seq = 1
    /\ RoleBefore = Some("Admin")
    /\ Len(last.replies) = 1
    /\ Replies[1].seq = 1

\* the last message did not deserialize: what its processing did
InvalidProcessed ==
    last.input.type = "invalid" =>
        /\ Len(last.replies) = 1
        /\ Replies[1].type = "invalid_message"
        /\ last.replies[1].result.ok
        /\ last.broadcasts = << >>
        /\ SessionUnchanged
        /\ RegistryUnchanged

\* the step in which a message that does not deserialize is received and
\* answered: it is counted and a channel changes
InvalidReceived ==
    /\ received' = received + 1
    /\ channels' # channels

\* the step appends InvalidMessage to the queue of the sender and to no
\* other, and leaves the sessions, the tables and every task where they
\* are: the sender is back in its receive loop
InvalidAnswered ==
    /\ last'.input.type = "invalid"
    /\ last'.client_id \in DOMAIN sessions
    /\ channels' = [channels EXCEPT
                       ![sessions[last'.client_id].client_sender].queue =
                           Append(@, [type |-> "invalid_message"])]
    /\ sessions' = sessions
    /\ tables' = tables
    /\ \A c \in Connections :
          /\ conns'[c].pc = conns[c].pc
          /\ conns'[c].client_id = conns[c].client_id
          /\ conns'[c].holds = conns[c].holds
    /\ \E c \in Connections :
          /\ conns'[c].client_id = last'.client_id
          /\ conns'[c].pc = "recv"

\* C23: a text message that does not decode is answered with the one reply
\* InvalidMessage to its sender, whatever its role; nothing is broadcast,
\* the role, the subscribed flag and the registry stay as they are, and the
\* connection stays in its receive loop.
C23_InvalidMessage ==
    []InvalidProcessed /\ [][InvalidReceived => InvalidAnswered]_vars

C23_Witness ==
    /\ last.input.type = "invalid"
    /\ RoleBefore = Some("Admin")
    /\ Len(last.replies) = 1
    /\ Replies[1].type = "invalid_message"
    /\ \E c \in Connections :
          conns[c].client_id = last.client_id /\ conns[c].pc = "recv"

\* the last message was a mutation of an Admin
AdminMutation(conn) ==
    /\ conn.input.type \in Mutations
    /\ conn.user_type = Some("Admin")

\* a step that changes the list of tables is the processing of AddTable,
\* UpdateTable or RemoveTable of a connection that read the role Admin when
\* it dispatched the command
TablesChangedByAdmin ==
    tables' # tables =>
        \E c \in Connections :
            /\ conns[c].pc = "process"
            /\ conns'[c].pc # "process"
            /\ AdminMutation(conns[c])

\* no other message changes the list
OthersLeaveTables ==
    (last.input.type \in Commands /\ ~AdminMutation(last)) => RegistryUnchanged

\* C30: the list of tables is changed only by AddTable, UpdateTable and
\* RemoveTable of a session whose role was Admin at dispatch; commands of
\* sessions with role None or User, and Ping, Login, Subscribe and
\* Unsubscribe of any session, never change it.
C30_OnlyAdminMutates ==
    []OthersLeaveTables /\ [][TablesChangedByAdmin]_vars

C30_Witness ==
    /\ last.input.type = "remove_table"
    /\ AdminMutation(last)
    /\ last.session_before.value.user_type = Some("Admin")
    /\ last.lobby_after # last.lobby_before

\* the last message was UnsubscribeTables of a User or an Admin: what its
\* processing did
UnsubscribeProcessed ==
    (last.input.type = "unsubscribe_tables" /\ RoleBefore # None) =>
        /\ Replies = << >>
        /\ last.broadcasts = << >>
        /\ ~last.session_after.value.subscribed
        /\ RoleAfter = RoleBefore
        /\ RegistryUnchanged

\* the clients whose last message processed to the end is such an
\* UnsubscribeTables
Unsubscribed ==
    { conns[c].client_id : c \in { d \in Connections : conns[d].unsubscribed } }

\* connection c scans the sessions for its broadcast in this step
BroadcastScan(c) ==
    /\ conns[c].pc = "broadcast"
    /\ conns'[c].pc # "broadcast"

QueueOfClient(chs, client_id) == chs[sessions[client_id].client_sender].queue

\* a broadcast that scans now delivers nothing to them
NothingForUnsubscribed ==
    \A c \in Connections :
        BroadcastScan(c) =>
            \A id \in Unsubscribed \cap DOMAIN sessions :
                QueueOfClient(channels', id) = QueueOfClient(channels, id)

\* C21: UnsubscribeTables of a User or an Admin clears the subscribed flag
\* of the session, is answered with no reply and no broadcast and leaves
\* the role and the registry as they are; a broadcast that scans after the
\* command was processed to the end delivers nothing to the session.
C21_Unsubscribe ==
    []UnsubscribeProcessed /\ [][NothingForUnsubscribed]_vars

HasType(queue, type) == \E i \in 1..Len(queue) : queue[i].type = type

C21_Witness ==
    /\ last.input.type = "add_table"
    /\ Len(last.broadcasts) = 1
    /\ LET b == last.broadcasts[1]
       IN  /\ ~b.sessions[last.client_id].subscribed
           /\ HasType(BroadcastQueueBefore(b, last.client_id), "table_list")
           /\ BroadcastQueueAfter(b, last.client_id)
                 = BroadcastQueueBefore(b, last.client_id)

\* the clients whose task is between its registration and its
\* handle_disconnect
Connected ==
    { conns[c].client_id :
        c \in { d \in Connections : conns[d].pc \notin {"new", "closed"} } }

\* the sessions are those of the connected clients, and the sender of the
\* channel of a session that was removed is gone
DirectoryIsConnected ==
    /\ DOMAIN sessions = Connected
    /\ \A ch \in DOMAIN channels :
          channels[ch].tx_open =>
              \E id \in DOMAIN sessions : sessions[id].client_sender = ch

\* nothing is enqueued on a channel whose sender is gone
NothingForRemoved ==
    \A ch \in DOMAIN channels :
        ~channels[ch].tx_open => channels'[ch].queue = channels[ch].queue

\* C26: when the receive loop of a connection is left, its session is
\* removed; after that no send and no broadcast enqueues anything on its
\* channel, and the keys of the directory are the clients whose task is
\* between registration and disconnect handling.
C26_DisconnectCleansUp ==
    []DirectoryIsConnected /\ [][NothingForRemoved]_vars

C26_Witness ==
    /\ last.input.type = "add_table"
    /\ Len(last.broadcasts) = 1
    /\ \E c \in Connections :
          /\ conns[c].pc = "closed"
          /\ conns[c].client_id \notin DOMAIN last.broadcasts[1].sessions
          /\ \E ch \in DOMAIN channels :
                /\ ~channels[ch].tx_open
                /\ HasType(channels[ch].queue, "table_list")
                /\ last.broadcasts[1].after[ch].queue = channels[ch].queue

----------------------------------------------------------------------------
(* Order of the events, checked under SpecOrdering *)

\* the TableAdded events among the outputs sent to a session, in the order
\* in which they were enqueued
AddedEvents(queue) == SelectSeq(queue, LAMBDA o : o.type = "table_added")

\* C24: any two sessions that both got two broadcast events got them in the
\* same relative order.
C24_SameOrder ==
    \A ch1, ch2 \in DOMAIN channels :
        LET e1 == AddedEvents(channels[ch1].queue)
            e2 == AddedEvents(channels[ch2].queue)
        IN  \A i, j \in DOMAIN e1, k, l \in DOMAIN e2 :
                (i < j /\ e1[i] = e2[k] /\ e1[j] = e2[l]) => k < l

\* C25: Lobby::add_table takes the id of the new table from the counter of
\* the lobby while the write guard is held, so the table with the smaller id
\* was added by the mutation that held the write lock first; on every
\* channel the event of that mutation is enqueued before the other one.
C25_MutationOrder ==
    \A ch \in DOMAIN channels :
        LET e == AddedEvents(channels[ch].queue)
        IN  \A i, j \in DOMAIN e : i < j => e[i].table.id < e[j].table.id

----------------------------------------------------------------------------
(* The locks, checked under SpecLocks *)

HoldsLobby(c) == conns[c].holds \cap LobbyLocks # {}

HoldsSessions(c) == conns[c].holds \cap SessionsLocks # {}

\* task c asks for a guard that it cannot get while task d holds its guard
WaitsFor(c, d) ==
    /\ c # d
    /\ Needed(conns[c]) \notin conns[c].holds \cup {"none"}
    /\ IF Needed(conns[c]) \in {"lobby_read", "sessions_read"}
       THEN conns[d].holds \cap ResourceOf(Needed(conns[c])) \cap
                {"lobby_write", "sessions_write"} # {}
       ELSE conns[d].holds \cap ResourceOf(Needed(conns[c])) # {}

\* the tasks reached from the tasks `from` over at most n waits
RECURSIVE WaitedFor(_, _)
WaitedFor(from, n) ==
    IF n = 0 THEN {}
    ELSE LET next == { d \in Connections : \E c \in from : WaitsFor(c, d) }
         IN  next \cup WaitedFor(next, n - 1)

\* C27: no task holds a guard of the lobby and a guard of the sessions at
\* the same time, and no task waits, directly or over other waiting tasks,
\* for a guard that only it can free.
C27_OneLockAtATime ==
    /\ \A c \in Connections : ~(HoldsLobby(c) /\ HoldsSessions(c))
    /\ \A c \in Connections : c \notin WaitedFor({c}, NumConnections)

\* the task of a logged-in client that got SubscribeTables has had the read
\* guard of the lobby and the read guard of the sessions, holds nothing, and
\* waits for the write guard of the sessions while another task holds a guard
C27_Witness ==
    \E c, d \in Connections :
        /\ conns[c].input.type = "subscribe_tables"
        /\ conns[c].user_type.some
        /\ conns[c].pc = "action"
        /\ Len(conns[c].replies) = 1
        /\ conns[c].holds = {}
        /\ WaitsFor(c, d)

----------------------------------------------------------------------------
(* Progress of the tasks, checked under SpecFair *)

InFlight(c) == conns[c].pc \in {"process", "output", "broadcast", "action"}

\* the message that was processed last had each effect of its ProcessResult
\* applied: the reply sent, the event broadcast, the action written
FullyProcessed ==
    /\ last.result.output.some =>
           /\ Len(last.replies) = 1
           /\ last.replies[1].output = last.result.output.value
           /\ last.replies[1].result.ok
    /\ last.result.subscription_output.some =>
           /\ Len(last.broadcasts) = 1
           /\ last.broadcasts[1].output = last.result.subscription_output.value
    /\ last.result.action.kind = "UpdateUserType" =>
           /\ last.session_after.some
           /\ last.session_after.value.user_type = last.result.action.user_type
    /\ last.result.action.kind = "UpdateSubscribed" =>
           /\ last.session_after.some
           /\ last.session_after.value.subscribed = last.result.action.subscribed

\* a task that holds the read guard of the sessions to send can send
SendsDoNotWait ==
    \A c \in Connections :
        (conns[c].pc \in {"output", "broadcast"}
         /\ "sessions_read" \in conns[c].holds) => ENABLED TaskStep(c)

\* C28: with fair scheduling every command that a task has taken from its
\* connection is processed to the end, with its reply, its broadcast and its
\* action applied, and a send under the read guard of the sessions never
\* has to wait.
C28_Progress ==
    /\ []FullyProcessed
    /\ []SendsDoNotWait
    /\ \A c \in Connections : InFlight(c) ~> (conns[c].pc = "recv")

\* a logged-in client got its table list and its subscription while the
\* task of another connection was at work
C28_Witness ==
    /\ last.input.type = "subscribe_tables"
    /\ last.user_type.some
    /\ Len(last.replies) = 1
    /\ last.session_after.some
    /\ last.session_after.value.subscribed
    /\ \E d \in Connections : InFlight(d) /\ conns[d].client_id # last.client_id

----------------------------------------------------------------------------
(* The two dispatchers, checked under SpecLegacy *)

\* C29: no command makes the task of a connection panic, under the
\* dispatcher of either crate root, and the session of a task that has
\* ended is not in the directory any more.
C29_NoCommandIsFatal ==
    \A c \in Connections :
        /\ conns[c].pc # "panicked"
        /\ conns[c].pc \in {"closed", "panicked"} =>
               conns[c].client_id \notin DOMAIN sessions

----------------------------------------------------------------------------
(* The ids of the tables, checked under SpecLobby *)

IdsOf(list) == { list[i].id : i \in 1..Len(list) }

IdsInOrder(list) == [i \in 1..Len(list) |-> list[i].id]

\* the ids in the registry are ids that the counter has handed out
IdsFromCounter ==
    \A id \in IdsOf(tables) :
        /\ id # ABSENT
        /\ FirstTableId <= id
        /\ id < nextTableId

\* the counter does not go down; an id that comes into the registry is the
\* value the counter had, and the counter has moved past it
CounterIncreases ==
    /\ nextTableId' >= nextTableId
    /\ \A id \in IdsOf(tables') \ IdsOf(tables) :
          /\ id = nextTableId
          /\ nextTableId' > id

\* an update_table that returns leaves the ids where they are
UpdateKeepsIds ==
    \A t \in Tasks :
        (pc[t] = "write" /\ call[t].op = "update_table" /\ pc'[t] = "idle") =>
            IdsInOrder(tables') = IdsInOrder(tables)

\* C33: no table of the registry has the id ABSENT; the ids come from a
\* counter that starts at FirstTableId and never goes down, a new id is the
\* value of the counter and so larger than every id handed out before, and
\* update_table changes no id.
C33_IdsFromCounter ==
    []IdsFromCounter /\ [][CounterIncreases /\ UpdateKeepsIds]_vars

\* id 3 was handed out and is not in the registry, and the add_table that
\* returned last got id 4
C33_Witness ==
    /\ ret.call.op = "add_table"
    /\ ret.result.ok
    /\ ret.result.value.id = FirstTableId + 3
    /\ FirstTableId + 3 \in IdsOf(tables)
    /\ FirstTableId + 2 \notin IdsOf(tables)

----------------------------------------------------------------------------
(* The order of the effects of one dispatch, checked under Spec *)

\* the session of the task is as it was when the task took the message
SessionAsBefore(c) ==
    SessionOf(sessions, conns[c].client_id) = conns[c].session_before

\* what of the ProcessResult of task c is applied so far
ReplySent(c) ==
    IF conns[c].result.output.some
    THEN /\ Len(conns[c].replies) = 1
         /\ conns[c].replies[1].output = conns[c].result.output.value
    ELSE conns[c].replies = << >>

EventSent(c) ==
    IF conns[c].result.subscription_output.some
    THEN /\ Len(conns[c].broadcasts) = 1
         /\ conns[c].broadcasts[1].output =
                conns[c].result.subscription_output.value
         /\ SessionOf(conns[c].broadcasts[1].sessions, conns[c].client_id)
                = conns[c].session_before
    ELSE conns[c].broadcasts = << >>

\* C31: process_input sends the reply first, broadcasts the event next and
\* writes the action last; when the reply and when the event is sent, the
\* role and the subscribed flag of the session are as they were before the
\* command.
C31_EffectsInOrder ==
    \A c \in Connections :
        /\ conns[c].pc = "output" =>
               /\ conns[c].result.output.some
               /\ conns[c].replies = << >>
               /\ conns[c].broadcasts = << >>
               /\ SessionAsBefore(c)
        /\ conns[c].pc = "broadcast" =>
               /\ conns[c].result.subscription_output.some
               /\ ReplySent(c)
               /\ conns[c].broadcasts = << >>
               /\ SessionAsBefore(c)
        /\ conns[c].pc = "action" =>
               /\ conns[c].result.action.kind # "DoNothing"
               /\ ReplySent(c)
               /\ EventSent(c)
               /\ SessionAsBefore(c)

\* the table list is sent to a logged-in client and its subscribed flag is
\* not written yet
C31_Witness ==
    \E c \in Connections :
        /\ conns[c].pc = "action"
        /\ conns[c].input.type = "subscribe_tables"
        /\ conns[c].result.action = UpdateSubscribed(TRUE)
        /\ Len(conns[c].replies) = 1
        /\ conns[c].replies[1].output.type = "table_list"
        /\ conns[c].session_before.some
        /\ ~sessions[conns[c].client_id].subscribed

----------------------------------------------------------------------------
(* One command after the other, checked under Spec *)

EventTypes == {"table_added", "table_updated", "table_removed"}

\* the direct replies among the outputs sent to a session, in their order
DirectReplies(queue) == SelectSeq(queue, LAMBDA o : o.type \notin EventTypes)

IsPrefix(p, q) == Len(p) <= Len(q) /\ SubSeq(q, 1, Len(p)) = p

\* the role a message leaves to the session of its sender: the one its
\* action writes, or the one the session had
RoleLeftBy(done) ==
    IF done.result.action.kind = "UpdateUserType"
    THEN done.result.action.user_type
    ELSE done.session_before.value.user_type

\* task c takes a message from its connection and dispatches it
Dispatches(c) == conns[c].pc = "recv" /\ conns'[c].pc = "process"

\* a task takes a message only in its receive loop, with nothing of an
\* earlier message left to do, and dispatches it under the role that the
\* command it processed before has left
DispatchedAfterPrevious ==
    \A c \in Connections :
        /\ conns'[c].input # conns[c].input /\ conns'[c].input # NoInput =>
               /\ conns[c].pc = "recv"
               /\ conns[c].input = NoInput
               /\ conns[c].replies = << >>
        /\ (Dispatches(c) /\ last.client_id = conns[c].client_id
                          /\ last.session_before.some) =>
               conns'[c].user_type = RoleLeftBy(last)

\* what is sent to a session comes after what was sent to it before
QueuesGrowAtEnd ==
    \A ch \in DOMAIN channels :
        IsPrefix(channels[ch].queue, channels'[ch].queue)

\* when a command is processed to the end, its reply is the direct reply
\* that was sent to its sender last
ReplyIsLatest ==
    (last' # last /\ last'.replies # << >> /\ last'.replies[1].result.ok) =>
        LET replies == DirectReplies(QueueOfClient(channels', last'.client_id))
        IN  /\ replies # << >>
            /\ replies[Len(replies)] = last'.replies[1].output

\* C32: a task takes the next command when the one before is processed to
\* the end; the replies of a session are on its channel in the order of the
\* commands, and a command is dispatched under the role that the previous
\* command of the session has written.
C32_OneCommandAtATime ==
    [][DispatchedAfterPrevious /\ QueuesGrowAtEnd /\ ReplyIsLatest]_vars

\* a Ping after a successful Login is dispatched under the new role, and
\* the Pong is behind the LoginSuccessful
C32_Witness ==
    /\ last.input.type = "ping"
    /\ last.user_type = Some("Admin")
    /\ last.session_before.some
    /\ QueueOfClient(channels, last.client_id)
           = << LoginSuccessful("Admin"), PongSeq(last.input.seq) >>

----------------------------------------------------------------------------
(* Subscribers and roles, checked under SpecRelogin *)

\* C34: every session whose subscribed flag is set has a role, and no
\* broadcast delivers an event to a session without a role.
C34_SubscribedHaveRole ==
    /\ \A id \in DOMAIN sessions :
          sessions[id].subscribed => sessions[id].user_type.some
    /\ \A i \in DOMAIN last.broadcasts :
          LET b == last.broadcasts[i]
          IN  \A id \in b.result.success_client_ids :
                  b.sessions[id].user_type.some

----------------------------------------------------------------------------
(* What a step does to the sessions of the other clients, checked under Spec *)

\* the task of client id writes the action of a command of one of the
\* `types` in this step
WritesAction(id, types) ==
    \E c \in Connections :
        /\ conns[c].client_id = id
        /\ conns[c].pc = "action"
        /\ conns[c].input.type \in types
        /\ conns'[c].pc = "recv"

\* the session of client id is registered by its task in this step
Connects(id) ==
    \E c \in Connections :
        /\ conns[c].pc = "new"
        /\ conns'[c].pc = "recv"
        /\ conns'[c].client_id = id

\* the session of client id is removed by its task in this step
Disconnects(id) ==
    \E c \in Connections :
        /\ conns[c].client_id = id
        /\ conns[c].pc = "recv"
        /\ conns'[c].pc = "closed"

SessionChangesAreOwn ==
    \A id \in DOMAIN sessions \cup DOMAIN sessions' :
        /\ id \notin DOMAIN sessions => Connects(id)
        /\ id \notin DOMAIN sessions' => Disconnects(id)
        /\ id \in DOMAIN sessions \cap DOMAIN sessions' =>
               /\ sessions'[id].user_type # sessions[id].user_type =>
                      WritesAction(id, {"login"})
               /\ sessions'[id].subscribed # sessions[id].subscribed =>
                      WritesAction(id, {"subscribe_tables", "unsubscribe_tables"})
               /\ sessions'[id].client_sender = sessions[id].client_sender
               /\ sessions'[id].client_id = sessions[id].client_id

\* C36: the role of a session changes only when its own task writes the
\* action of its Login, its subscribed flag only when its own task writes
\* the action of its SubscribeTables or UnsubscribeTables, and a session
\* comes and goes only with the connect and the disconnect of its own task.
C36_OwnSessionOnly == [][SessionChangesAreOwn]_vars

\* a client has logged in while the session of another client was there
\* with another role
C36_Witness ==
    /\ last.input.type = "login"
    /\ last.session_after.some
    /\ last.session_after.value.user_type = Some("User")
    /\ \E id \in DOMAIN sessions :
          /\ id # last.client_id
          /\ sessions[id].user_type = Some("Admin")

----------------------------------------------------------------------------
(* The list a subscriber builds from what it is sent, checked under        *)
(* SpecEvents                                                               *)

\* what a client does to its list when it gets an event: the change the
\* event describes
ApplyEvent(view, e) ==
    CASE e.type = "table_added" ->
            IF e.after_id = ABSENT THEN VecInsert(view, 0, e.table)
            ELSE IF Position(view, e.after_id).some
                 THEN VecInsert(view, Position(view, e.after_id).value + 1,
                                e.table)
                 ELSE view
      [] e.type = "table_updated" ->
            [i \in DOMAIN view |->
                IF view[i].id = e.table.id THEN e.table ELSE view[i]]
      [] e.type = "table_removed" ->
            SelectSeq(view, LAMBDA t : t.id # e.id)
      [] OTHER -> view

RECURSIVE ApplyEvents(_, _)
ApplyEvents(view, outputs) ==
    IF outputs = << >> THEN view
    ELSE ApplyEvents(ApplyEvent(view, Head(outputs)), Tail(outputs))

\* the list of a client that was sent `queue`: the last TableList and the
\* events behind it
View(queue) ==
    LET start == CHOOSE i \in DOMAIN queue :
                     /\ queue[i].type = "table_list"
                     /\ \A j \in DOMAIN queue :
                            queue[j].type = "table_list" => j <= i
    IN  ApplyEvents(queue[start].tables, SubSeq(queue, start + 1, Len(queue)))

\* no task is at work on a message
Quiescent == \A c \in Connections : conns[c].pc \in {"new", "recv", "closed"}

\* C35: when no command is in flight, the list that a subscribed session
\* builds from the TableList it got and the events it got after it is the
\* list of the registry.
C35_ViewConverges ==
    Quiescent =>
        \A id \in DOMAIN sessions :
            (sessions[id].subscribed
             /\ HasType(QueueOfClient(channels, id), "table_list")) =>
                View(QueueOfClient(channels, id)) = tables

====
